---- MODULE Spec2Model ----
(***************************************************************************)
(* Model of the timeline-driven composition engine: composeVideo and the   *)
(* media tools it orchestrates (extractSegment, overlayImage, overlayText, *)
(* overlayAudio, concatenateSegments) together with the file storage.      *)
(*                                                                         *)
(* One behaviour is one invocation of composeVideo on one timeline.  Every *)
(* await of the source is a step: a media call is entered by a Call action *)
(* and left by a Return action; progress callbacks fire in between.        *)
(*                                                                         *)
(* Percent values are exact rationals.  Every value the code can pass to   *)
(* onProgress is a multiple of 1 / (100 * timeline.length), so the model   *)
(* stores percent * Scale with Scale = 100 * timeline.length.              *)
(* Frame timestamps are in milliseconds.                                   *)
(***************************************************************************)
EXTENDS Integers, Sequences, FiniteSets, TLC

\* ------------------------------------------------------------------ bounds
MaxRows == 2

MaxTrimEvents == 2

MaxFrames == 2

\* the longest timeline of plain rows (row counts above MaxRows)
MaxLongTimeline == 31

\* the most frames a decoded clip has in the frame-level specification
MaxClipFrames == 3

\* the most files the store holds in the asset-resolution specification
MaxStoreFiles == 2

\* Frame times of the frame-level specification are counted in ticks of
\* 1/120 s, so that 1/30 s, 1/60 s and the 1/120 s frames of a 120 fps
\* source are all whole numbers.
\* `frame.duration || 1 / 30`
DefaultFrameDuration == 4

\* `Math.max(..., 1 / 60)`
MinFrameDuration == 2

\* values the extractor reports through its progress callback (0..100)
TrimValues == {0, 50, 100}

\* timestamps (ms) a decoded frame of a segment can carry
FrameTimes == {0, 500, 1500}

\* ------------------------------------------------------------ data model
\* TimeRange, in seconds
Range(a, b) == [start |-> a, end |-> b]

Ref(id, name) ==
    [present |-> TRUE, fileId |-> id, fileName |-> name,
     timeRange |-> Range(0, 5)]

\* row.videoAsset / row.audioAsset undefined
Absent ==
    [present |-> FALSE, fileId |-> "", fileName |-> "",
     timeRange |-> Range(0, 5)]

EmptyRef == Ref("", "")

VideoById == Ref("v1", "clip.mp4")

VideoByName == Ref("", "clip.mp4")

\* a stored audio file used as the row's video asset: its trimmed buffer
\* has no video track
AudioFileAsVideo == Ref("a1", "song.mp3")

\* fileId matches nothing in storage (its fileName would)
UnknownRef == Ref("zz", "clip.mp4")

AudioById == Ref("a1", "song.mp3")

ImageById == Ref("i1", "logo.png")

NoFile == [src |-> "", video |-> FALSE, ops |-> <<>>, parts |-> <<>>]

MediaFile(id, hasVideo) ==
    [src |-> id, video |-> hasVideo, ops |-> <<>>, parts |-> <<>>]

\* fileStorage contents before the invocation (UploadedFile records)
InitialFiles ==
    << [id |-> "v1", name |-> "clip.mp4", type |-> "video",
        file |-> MediaFile("v1", TRUE)],
       [id |-> "a1", name |-> "song.mp3", type |-> "audio",
        file |-> MediaFile("a1", FALSE)],
       [id |-> "i1", name |-> "logo.png", type |-> "image",
        file |-> MediaFile("i1", FALSE)] >>

Row(v, a, imgs, txts) ==
    [timeInClip |-> Range(0, 5), videoAsset |-> v, audioAsset |-> a,
     imageOverlays |-> imgs, textOverlays |-> txts]

\* the rows a timeline is built from: every branch composeVideo takes on a
\* row is taken by at least one of them
Rows ==
    \* video reference variants, nothing else on the row
    { Row(v, Absent, <<>>, <<>>) :
        v \in {Absent, EmptyRef, VideoById, VideoByName, UnknownRef} }
    \cup
    \* audio reference variants on a buffer with a video track
    { Row(VideoById, a, <<>>, <<>>) : a \in {EmptyRef, AudioById, UnknownRef} }
    \cup
    \* audio reference variants on a buffer without a video track
    { Row(AudioFileAsVideo, a, <<>>, <<>>) : a \in {AudioById, UnknownRef} }
    \cup
    \* image overlay lists
    { Row(VideoById, Absent, imgs, <<>>) :
        imgs \in { <<UnknownRef>>, <<EmptyRef, ImageById>>,
                   <<ImageById, ImageById>> } }
    \cup
    \* text overlays, everything at once, overlays without a video track
    { Row(VideoById, Absent, <<>>, <<"t1", "t2">>),
      Row(VideoById, AudioById, <<ImageById, ImageById>>, <<"t1", "t2">>),
      Row(AudioFileAsVideo, Absent, <<ImageById>>, <<"t1">>) }
    \cup
    \* a row without a video asset that still carries audio and overlays
    { Row(Absent, UnknownRef, <<EmptyRef, ImageById>>, <<"t1">>) }

RECURSIVE SeqsUpTo(_, _)
SeqsUpTo(S, n) ==
    IF n = 0 THEN { <<>> }
    ELSE LET shorter == SeqsUpTo(S, n - 1)
         IN  shorter \cup { Append(s, x) : s \in shorter, x \in S }

\* rows that differ in timeInClip and in the video time range only
TimedRows ==
    { [Row(VideoById, Absent, <<>>, <<>>)
          EXCEPT !.timeInClip = c, !.videoAsset.timeRange = r] :
        c \in {Range(0, 5), Range(5, 10), Range(5, 7)},
        r \in {Range(0, 5), Range(2, 4)} }
    \cup
    { [Row(Absent, Absent, <<>>, <<>>) EXCEPT !.timeInClip = c] :
        c \in {Range(0, 5), Range(5, 10), Range(5, 7)} }

\* composition.timeline: undefined, or a list of rows
Timelines ==
    { [present |-> FALSE, rows |-> <<>>] }
    \cup { [present |-> TRUE, rows |-> rs] : rs \in SeqsUpTo(Rows, MaxRows) }
    \cup { [present |-> TRUE, rows |-> rs] : rs \in SeqsUpTo(TimedRows, MaxRows) }
    \cup { [present |-> TRUE,
            rows |-> [j \in 1 .. n |-> Row(VideoById, Absent, <<>>, <<>>)]] :
            n \in (MaxRows + 1) .. MaxLongTimeline }

VARIABLES
    timeline,           \* composition.timeline (read-only input)
    files,              \* fileStorage contents
    pc,                 \* position inside composeVideo
    i,                  \* loop index over timeline rows (zero-based)
    k,                  \* index into the current overlay list (zero-based)
    trimmedSegment,     \* the row's working buffer
    processedSegments,  \* File[]
    finalFile,
    calls,              \* media tool invocations, in call order
    lookups,            \* getFileFromStorage invocations, in call order
    trimCount, lastTrim,    \* extractor progress callbacks of this extract
    s, frameCount, lastTs,  \* concatenateSegments: segment index, frames seen
    pct,                \* the percent value last given to onProgress
    addFileCalls,       \* fileStorage.addFile invocations
    result              \* ToolExecutionResult

\* the frame-level view of the media tools
VARIABLES
    clips,              \* per rendered row: decoded frame durations, overlays
    toolPc,             \* position inside the row pipeline
    clipIndex,          \* the row being rendered (zero-based)
    overlayIndex,       \* index into the current overlay list (zero-based)
    rendered,           \* the row's working buffer, as frames
    renderedSegments,   \* the buffers handed to concatenateSegments
    concatOutput        \* what concatenateSegments returned or threw

toolVars == << clips, toolPc, clipIndex, overlayIndex, rendered,
               renderedSegments, concatOutput >>

\* asset resolution on its own
VARIABLES
    assetRef,           \* the reference to resolve ({fileId, fileName})
    storagePc,          \* position: choosing the key, looking it up, done
    resolution          \* the key used and what getFileFromStorage gave

storageVars == << assetRef, storagePc, resolution >>

\* splitAudioIntoChunks of the audio chunker
VARIABLES
    audioFile,          \* the file: size, duration of its metadata, samples
    chunkPc,            \* position inside splitAudioIntoChunks
    chunkDurationSeconds,
    currentTime,        \* in units of 1 / sampleRate s
    chunkIndex,
    chunks              \* the AudioChunk records pushed so far

chunkVars == << audioFile, chunkPc, chunkDurationSeconds, currentTime,
                chunkIndex, chunks >>

vars == << timeline, files, pc, i, k, trimmedSegment, processedSegments,
           finalFile, calls, lookups, trimCount, lastTrim, s, frameCount,
           lastTs, pct, addFileCalls, result, toolVars, storageVars,
           chunkVars >>

NoUpload == [id |-> "", name |-> "", type |-> "", file |-> NoFile]

NoResolution == [status |-> "none", key |-> "", uploadedFile |-> NoUpload]

\* no reference is being resolved on its own
StorageIdle ==
    /\ assetRef = Absent
    /\ storagePc = "key"
    /\ resolution = NoResolution

NoAudioFile == [sizeMB |-> 0, duration |-> 0, length |-> 0]

\* no audio file is being split
ChunkerIdle ==
    /\ audioFile = NoAudioFile
    /\ chunkPc = "idle"
    /\ chunkDurationSeconds = 0
    /\ currentTime = 0
    /\ chunkIndex = 0
    /\ chunks = <<>>

\* a buffer as the media tools see it: a named list of video frames
\* no audio track
NoTrack == [present |-> FALSE, buffers |-> <<>>]

NoBuffer == [name |-> "", frames |-> <<>>, audio |-> NoTrack]

NoOutput == [status |-> "none", error |-> "", file |-> NoBuffer]

\* no media tool is at work on frames
ToolsIdle ==
    /\ clips = <<>>
    /\ toolPc = "clip"
    /\ clipIndex = 0
    /\ overlayIndex = 0
    /\ rendered = NoBuffer
    /\ renderedSegments = <<>>
    /\ concatOutput = NoOutput

Pending == [status |-> "pending", error |-> "", segmentsProcessed |-> 0,
            duration |-> 0, file |-> NoFile]

Init ==
    /\ timeline \in Timelines
    /\ files = InitialFiles
    /\ pc = "init"
    /\ i = 0
    /\ k = 0
    /\ trimmedSegment = NoFile
    /\ processedSegments = <<>>
    /\ finalFile = NoFile
    /\ calls = <<>>
    /\ lookups = <<>>
    /\ trimCount = 0
    /\ lastTrim = 0
    /\ s = 0
    /\ frameCount = 0
    /\ lastTs = -1
    /\ pct = 0
    /\ addFileCalls = 0
    /\ result = Pending
    /\ ToolsIdle
    /\ StorageIdle
    /\ ChunkerIdle


\* --------------------------------------------------------------- helpers
Min(S) == CHOOSE x \in S : \A y \in S : x <= y

\* timeline.length (0 when the timeline is undefined)
N == Len(timeline.rows)

\* percent values are stored multiplied by Scale
Scale == 100 * N

\* a variant that only tests for an undefined timeline
TimelineIsUndefined == ~timeline.present

\* `!timeline || timeline.length === 0`
TimelineIsEmpty == ~timeline.present \/ Len(timeline.rows) = 0

\* timeline[i]
CurrentRow == timeline.rows[i + 1]

\* `ref.fileId || ref.fileName`: the empty string is falsy
RefKey(ref) == IF ref.fileId # "" THEN ref.fileId ELSE ref.fileName

\* files.find(f => f.id === key), then files.find(f => f.name === key)
ById(key) == { j \in DOMAIN files : files[j].id = key }

ByName(key) == { j \in DOMAIN files : files[j].name = key }

InStorage(key) == ById(key) # {} \/ ByName(key) # {}

\* a variant that matches the name before the id
GetFileByNameFirst(key) ==
    IF ByName(key) # {} THEN files[Min(ByName(key))] ELSE files[Min(ById(key))]

GetFileFromStorage(key) ==
    IF ById(key) # {} THEN files[Min(ById(key))] ELSE files[Min(ByName(key))]

\* `10 + (i / timeline.length) * 60`
BaseProgress(row) == 10 * Scale + (row * 60 * Scale) \div N

\* `baseProgress + (trimProgress / 100) * (60 / timeline.length)`
TrimPercent(row, trimProgress) ==
    BaseProgress(row) + (trimProgress * 60 * Scale) \div (100 * N)

\* concatenateSegments' own percentage for a frame of segment seg:
\* `Math.min(99, Math.floor(((s + frame.timestamp) / segments.length) * 100))`
\* with frame.timestamp in seconds (ts is in ms)
ConcatFramePct(seg, ts, count) ==
    LET raw == ((seg * 1000 + ts) * 100) \div (count * 1000)
    IN  IF raw < 99 THEN raw ELSE 99

\* `70 + (concatProgress / 100) * 15`
ConcatPercent(concatProgress) == 70 * Scale + (concatProgress * 15 * Scale) \div 100

\* the buffer a tool writes: its input with one more operation applied
Applied(f, op, row, idx) ==
    [f EXCEPT !.ops = Append(@, [op |-> op, row |-> row, k |-> idx])]

\* extractSegment's output: a new buffer cut from the stored file
Extracted(uploaded, row) ==
    [src |-> uploaded.id, video |-> uploaded.file.video,
     ops |-> << [op |-> "extract", row |-> row, k |-> 0] >>, parts |-> <<>>]

\* concatenateSegments' output for two or more segments
Concatenated(segments) ==
    [src |-> "concat", video |-> TRUE, ops |-> <<>>, parts |-> segments]

\* the for-loop test `i < timeline.length`
LoopPc(j) == IF j < N THEN "rowStart" ELSE "afterRows"

\* onProgress?.(stage, percent)
OnProgress(percent) == pct' = percent

\* the catch block of composeVideo
Catch(message) ==
    /\ result' = [status |-> "failure", error |-> message,
                  segmentsProcessed |-> 0, duration |-> 0, file |-> NoFile]
    /\ pc' = "done"

\* entering / leaving a media tool
CallStart(op, idx, inputs) ==
    calls' = Append(calls, [op |-> op, row |-> i, k |-> idx, inputs |-> inputs,
                            output |-> NoFile, state |-> "running"])

CallEnd(out, st) ==
    calls' = [calls EXCEPT ![Len(calls)] = [@ EXCEPT !.output = out, !.state = st]]

Lookup(key) == lookups' = Append(lookups, [row |-> i, key |-> key])

progressVars == << pct >>

trimVars == << trimCount, lastTrim >>

concatVars == << s, frameCount, lastTs >>

\* what no step of composeVideo changes
inputVars == << timeline, toolVars, storageVars, chunkVars >>

\* ----------------------------------------------------- composeVideo steps
\* onProgress("Initializing", 0)
Initialize ==
    /\ pc = "init"
    /\ OnProgress(0)
    /\ pc' = "validate"
    /\ UNCHANGED << inputVars, files, i, k, trimmedSegment, processedSegments,
                    finalFile, calls, lookups, trimVars, concatVars,
                    addFileCalls, result >>

\* Step 1: validate the timeline, then onProgress("Starting ...", 5)
Validate ==
    /\ pc = "validate"
    /\ IF TimelineIsEmpty
       THEN /\ Catch("Timeline is empty")
            /\ UNCHANGED << progressVars, i >>
       ELSE /\ OnProgress(5 * Scale)
            /\ i' = 0
            /\ pc' = LoopPc(0)
            /\ UNCHANGED result
    /\ UNCHANGED << inputVars, files, k, trimmedSegment, processedSegments,
                    finalFile, calls, lookups, trimVars, concatVars,
                    addFileCalls >>

\* a variant whose `continue` does not advance the loop index
RowStartNoAdvance ==
    /\ pc = "rowStart"
    /\ OnProgress(BaseProgress(i))
    /\ pc' = IF CurrentRow.videoAsset.present THEN "videoRef" ELSE "rowStart"
    /\ UNCHANGED << inputVars, files, i, k, trimmedSegment, processedSegments,
                    finalFile, calls, lookups, trimVars, concatVars,
                    addFileCalls, result >>

\* a variant that renders a black placeholder for a row without videoAsset
RowStartWithPlaceholder ==
    /\ pc = "rowStart"
    /\ OnProgress(BaseProgress(i))
    /\ IF CurrentRow.videoAsset.present
       THEN /\ pc' = "videoRef"
            /\ UNCHANGED << i, processedSegments >>
       ELSE /\ processedSegments' = Append(processedSegments,
                                          MediaFile("black", TRUE))
            /\ i' = i + 1
            /\ pc' = LoopPc(i + 1)
    /\ UNCHANGED << inputVars, files, k, trimmedSegment, finalFile, calls,
                    lookups, trimVars, concatVars, addFileCalls, result >>

\* head of the loop body: report baseProgress; a row without videoAsset is
\* skipped (`continue`)
RowStart ==
    /\ pc = "rowStart"
    /\ OnProgress(BaseProgress(i))
    /\ IF CurrentRow.videoAsset.present
       THEN /\ pc' = "videoRef"
            /\ UNCHANGED i
       ELSE /\ i' = i + 1
            /\ pc' = LoopPc(i + 1)
    /\ UNCHANGED << inputVars, files, k, trimmedSegment, processedSegments,
                    finalFile, calls, lookups, trimVars, concatVars,
                    addFileCalls, result >>

\* `videoRef = fileId || fileName`, throw when empty, else report base + 2
VideoRef ==
    /\ pc = "videoRef"
    /\ IF RefKey(CurrentRow.videoAsset) = ""
       THEN /\ Catch("missing video reference")
            /\ UNCHANGED progressVars
       ELSE /\ OnProgress(BaseProgress(i) + 2 * Scale)
            /\ pc' = "extract"
            /\ UNCHANGED result
    /\ UNCHANGED << inputVars, files, i, k, trimmedSegment, processedSegments,
                    finalFile, calls, lookups, trimVars, concatVars,
                    addFileCalls >>

\* extractSegment is called; it first resolves the asset
ExtractCall ==
    /\ pc = "extract"
    /\ Lookup(RefKey(CurrentRow.videoAsset))
    /\ IF InStorage(RefKey(CurrentRow.videoAsset))
       THEN /\ CallStart("extractSegment", 0, <<>>)
            /\ pc' = "trimming"
            /\ trimCount' = 0
            /\ lastTrim' = 0
            /\ UNCHANGED result
       ELSE /\ calls' = Append(calls,
                  [op |-> "extractSegment", row |-> i, k |-> 0, inputs |-> <<>>,
                   output |-> NoFile, state |-> "threw"])
            /\ Catch("File not found in storage")
            /\ UNCHANGED trimVars
    /\ UNCHANGED << inputVars, files, i, k, trimmedSegment, processedSegments,
                    finalFile, progressVars, concatVars, addFileCalls >>

\* conversion.onProgress -> the trim callback of composeVideo
TrimProgress ==
    /\ pc = "trimming"
    /\ trimCount < MaxTrimEvents
    /\ \E p \in TrimValues :
         /\ p >= lastTrim
         /\ OnProgress(TrimPercent(i, p))
         /\ lastTrim' = p
    /\ trimCount' = trimCount + 1
    /\ UNCHANGED << inputVars, files, pc, i, k, trimmedSegment,
                    processedSegments, finalFile, calls, lookups, concatVars,
                    addFileCalls, result >>

ExtractReturn ==
    /\ pc = "trimming"
    /\ LET out == Extracted(GetFileFromStorage(RefKey(CurrentRow.videoAsset)), i)
       IN  /\ trimmedSegment' = out
           /\ CallEnd(out, "returned")
    /\ k' = 0
    /\ trimCount' = 0
    /\ lastTrim' = 0
    /\ pc' = "imageOverlays"
    /\ UNCHANGED << inputVars, files, i, processedSegments, finalFile, lookups,
                    concatVars, progressVars, addFileCalls, result >>

\* the conversion fails
ExtractThrow ==
    /\ pc = "trimming"
    /\ CallEnd(NoFile, "threw")
    /\ Catch("media error")
    /\ UNCHANGED << inputVars, files, i, k, trimmedSegment, processedSegments,
                    finalFile, lookups, trimVars, concatVars, progressVars,
                    addFileCalls >>

\* the image overlay loop: an overlay without a reference is skipped with a
\* warning (`continue`), any other is handed to overlayImage
ImageOverlays ==
    /\ pc = "imageOverlays"
    /\ IF k >= Len(CurrentRow.imageOverlays)
       THEN /\ pc' = "textOverlays"
            /\ k' = 0
            /\ UNCHANGED calls
       ELSE IF RefKey(CurrentRow.imageOverlays[k + 1]) = ""
       THEN /\ k' = k + 1
            /\ UNCHANGED << pc, calls >>
       ELSE /\ CallStart("overlayImage", k, << trimmedSegment >>)
            /\ pc' = "awaitImage"
            /\ UNCHANGED k
    /\ UNCHANGED << inputVars, files, i, trimmedSegment, processedSegments,
                    finalFile, lookups, trimVars, concatVars, progressVars,
                    addFileCalls, result >>

\* a variant that resolves the image before it looks for the video track
OverlayImageResolvingFirst ==
    /\ pc = "awaitImage"
    /\ LET imageRef == RefKey(CurrentRow.imageOverlays[k + 1])
       IN  IF ~InStorage(imageRef)
           THEN /\ Lookup(imageRef)
                /\ CallEnd(NoFile, "threw")
                /\ Catch("File not found in storage")
                /\ UNCHANGED << trimmedSegment, k >>
           ELSE /\ Lookup(imageRef)
                /\ trimmedSegment' =
                       IF trimmedSegment.video
                       THEN Applied(trimmedSegment, "overlayImage", i, k)
                       ELSE trimmedSegment
                /\ CallEnd(trimmedSegment', "returned")
                /\ k' = k + 1
                /\ pc' = "imageOverlays"
                /\ UNCHANGED result
    /\ UNCHANGED << inputVars, files, i, processedSegments, finalFile,
                    trimVars, concatVars, progressVars, addFileCalls >>

\* overlayImage: no video track -> the input itself; else resolve the image
\* and re-encode
OverlayImageReturn ==
    /\ pc = "awaitImage"
    /\ LET imageRef == RefKey(CurrentRow.imageOverlays[k + 1])
       IN  IF ~trimmedSegment.video
           THEN /\ CallEnd(trimmedSegment, "returned")
                /\ k' = k + 1
                /\ pc' = "imageOverlays"
                /\ UNCHANGED << trimmedSegment, lookups, result >>
           ELSE IF ~InStorage(imageRef)
           THEN /\ Lookup(imageRef)
                /\ CallEnd(NoFile, "threw")
                /\ Catch("File not found in storage")
                /\ UNCHANGED << trimmedSegment, k >>
           ELSE /\ Lookup(imageRef)
                /\ trimmedSegment' = Applied(trimmedSegment, "overlayImage", i, k)
                /\ CallEnd(trimmedSegment', "returned")
                /\ k' = k + 1
                /\ pc' = "imageOverlays"
                /\ UNCHANGED result
    /\ UNCHANGED << inputVars, files, i, processedSegments, finalFile,
                    trimVars, concatVars, progressVars, addFileCalls >>

\* a variant that swallows the failure and goes on with the next overlay
OverlayImageSwallow ==
    /\ pc = "awaitImage"
    /\ trimmedSegment.video
    /\ InStorage(RefKey(CurrentRow.imageOverlays[k + 1]))
    /\ Lookup(RefKey(CurrentRow.imageOverlays[k + 1]))
    /\ CallEnd(NoFile, "threw")
    /\ k' = k + 1
    /\ pc' = "imageOverlays"
    /\ UNCHANGED << inputVars, files, i, trimmedSegment, processedSegments,
                    finalFile, trimVars, concatVars, progressVars,
                    addFileCalls, result >>

\* decoding the image or re-encoding the frames fails
OverlayImageThrow ==
    /\ pc = "awaitImage"
    /\ trimmedSegment.video
    /\ InStorage(RefKey(CurrentRow.imageOverlays[k + 1]))
    /\ Lookup(RefKey(CurrentRow.imageOverlays[k + 1]))
    /\ CallEnd(NoFile, "threw")
    /\ Catch("media error")
    /\ UNCHANGED << inputVars, files, i, k, trimmedSegment, processedSegments,
                    finalFile, trimVars, concatVars, progressVars,
                    addFileCalls >>

\* the text overlay loop
TextOverlays ==
    /\ pc = "textOverlays"
    /\ IF k >= Len(CurrentRow.textOverlays)
       THEN /\ pc' = "audio"
            /\ UNCHANGED calls
       ELSE /\ CallStart("overlayText", k, << trimmedSegment >>)
            /\ pc' = "awaitText"
    /\ UNCHANGED << inputVars, files, i, k, trimmedSegment, processedSegments,
                    finalFile, lookups, trimVars, concatVars, progressVars,
                    addFileCalls, result >>

\* overlayText: no video track -> the input itself; else re-encode
OverlayTextReturn ==
    /\ pc = "awaitText"
    /\ trimmedSegment' = IF trimmedSegment.video
                         THEN Applied(trimmedSegment, "overlayText", i, k)
                         ELSE trimmedSegment
    /\ CallEnd(trimmedSegment', "returned")
    /\ k' = k + 1
    /\ pc' = "textOverlays"
    /\ UNCHANGED << inputVars, files, i, processedSegments, finalFile, lookups,
                    trimVars, concatVars, progressVars, addFileCalls, result >>

OverlayTextThrow ==
    /\ pc = "awaitText"
    /\ trimmedSegment.video
    /\ CallEnd(NoFile, "threw")
    /\ Catch("media error")
    /\ UNCHANGED << inputVars, files, i, k, trimmedSegment, processedSegments,
                    finalFile, lookups, trimVars, concatVars, progressVars,
                    addFileCalls >>

\* `if (row.audioAsset)`: an empty reference only warns, overlayAudio is
\* called all the same
Audio ==
    /\ pc = "audio"
    /\ IF CurrentRow.audioAsset.present
       THEN /\ CallStart("overlayAudio", 0, << trimmedSegment >>)
            /\ pc' = "awaitAudio"
       ELSE /\ pc' = "push"
            /\ UNCHANGED calls
    /\ UNCHANGED << inputVars, files, i, k, trimmedSegment, processedSegments,
                    finalFile, lookups, trimVars, concatVars, progressVars,
                    addFileCalls, result >>

\* overlayAudio: no video track -> the input itself, before the audio asset
\* is resolved; else resolve the audio asset and re-encode
OverlayAudioReturn ==
    /\ pc = "awaitAudio"
    /\ LET audioRef == RefKey(CurrentRow.audioAsset)
       IN  IF ~trimmedSegment.video
           THEN /\ CallEnd(trimmedSegment, "returned")
                /\ pc' = "push"
                /\ UNCHANGED << trimmedSegment, lookups, result >>
           ELSE IF ~InStorage(audioRef)
           THEN /\ Lookup(audioRef)
                /\ CallEnd(NoFile, "threw")
                /\ Catch("File not found in storage")
                /\ UNCHANGED trimmedSegment
           ELSE /\ Lookup(audioRef)
                /\ trimmedSegment' = Applied(trimmedSegment, "overlayAudio", i, 0)
                /\ CallEnd(trimmedSegment', "returned")
                /\ pc' = "push"
                /\ UNCHANGED result
    /\ UNCHANGED << inputVars, files, i, k, processedSegments, finalFile,
                    trimVars, concatVars, progressVars, addFileCalls >>

OverlayAudioThrow ==
    /\ pc = "awaitAudio"
    /\ trimmedSegment.video
    /\ InStorage(RefKey(CurrentRow.audioAsset))
    /\ Lookup(RefKey(CurrentRow.audioAsset))
    /\ CallEnd(NoFile, "threw")
    /\ Catch("media error")
    /\ UNCHANGED << inputVars, files, i, k, trimmedSegment, processedSegments,
                    finalFile, trimVars, concatVars, progressVars,
                    addFileCalls >>

\* a variant that stores every row's segment as soon as it is rendered
PushAndPublishSegment ==
    /\ pc = "push"
    /\ processedSegments' = Append(processedSegments, trimmedSegment)
    /\ addFileCalls' = addFileCalls + 1
    /\ files' = Append(files, [id |-> "generated", name |-> "out.mp4",
                               type |-> "video", file |-> trimmedSegment])
    /\ i' = i + 1
    /\ pc' = LoopPc(i + 1)
    /\ UNCHANGED << inputVars, k, trimmedSegment, finalFile, calls, lookups,
                    trimVars, concatVars, progressVars, result >>

\* a variant that puts the new segment in front (unshift for push)
UnshiftSegment ==
    /\ pc = "push"
    /\ processedSegments' = << trimmedSegment >> \o processedSegments
    /\ i' = i + 1
    /\ pc' = LoopPc(i + 1)
    /\ UNCHANGED << inputVars, files, k, trimmedSegment, finalFile, calls,
                    lookups, trimVars, concatVars, progressVars, addFileCalls,
                    result >>

\* processedSegments.push(trimmedSegment); next iteration
PushSegment ==
    /\ pc = "push"
    /\ processedSegments' = Append(processedSegments, trimmedSegment)
    /\ i' = i + 1
    /\ pc' = LoopPc(i + 1)
    /\ UNCHANGED << inputVars, files, k, trimmedSegment, finalFile, calls,
                    lookups, trimVars, concatVars, progressVars, addFileCalls,
                    result >>

\* after the loop: no segment -> throw; else onProgress("Combining ...", 70)
AfterRows ==
    /\ pc = "afterRows"
    /\ IF Len(processedSegments) = 0
       THEN /\ Catch("No valid video segments found in timeline")
            /\ UNCHANGED progressVars
       ELSE /\ OnProgress(70 * Scale)
            /\ pc' = "combine"
            /\ UNCHANGED result
    /\ UNCHANGED << inputVars, files, i, k, trimmedSegment, processedSegments,
                    finalFile, calls, lookups, trimVars, concatVars,
                    addFileCalls >>

\* a variant that also concatenates a single segment
NeedsConcatFromOne == Len(processedSegments) >= 1

\* `processedSegments.length > 1`
NeedsConcat == Len(processedSegments) > 1

\* Step 3: concatenateSegments when there are several segments, else the
\* single segment is the final file
Combine ==
    /\ pc = "combine"
    /\ IF NeedsConcat
       THEN /\ CallStart("concatenateSegments", 0, processedSegments)
            /\ s' = 0
            /\ frameCount' = 0
            /\ lastTs' = -1
            /\ pc' = "concatenating"
            /\ UNCHANGED finalFile
       ELSE /\ finalFile' = processedSegments[1]
            /\ pc' = "save"
            /\ UNCHANGED << calls, concatVars >>
    /\ UNCHANGED << inputVars, files, i, k, trimmedSegment, processedSegments,
                    lookups, trimVars, progressVars, addFileCalls, result >>

\* one decoded frame of segment s: drawn, added, and reported
ConcatFrame ==
    /\ pc = "concatenating"
    /\ s < Len(processedSegments)
    /\ processedSegments[s + 1].video
    /\ frameCount < MaxFrames
    /\ \E ts \in FrameTimes :
         /\ ts > lastTs
         /\ lastTs' = ts
         /\ OnProgress(ConcatPercent(
                ConcatFramePct(s, ts, Len(processedSegments))))
    /\ frameCount' = frameCount + 1
    /\ UNCHANGED << inputVars, files, pc, i, k, trimmedSegment,
                    processedSegments, finalFile, calls, lookups, trimVars, s,
                    addFileCalls, result >>

\* the frames (if any) and the audio of segment s are done
ConcatNextSegment ==
    /\ pc = "concatenating"
    /\ s < Len(processedSegments)
    /\ processedSegments[s + 1].video => frameCount > 0
    /\ s' = s + 1
    /\ frameCount' = 0
    /\ lastTs' = -1
    /\ UNCHANGED << inputVars, files, pc, i, k, trimmedSegment,
                    processedSegments, finalFile, calls, lookups, trimVars,
                    progressVars, addFileCalls, result >>

\* output.finalize(); progressCallback(100); return
ConcatReturn ==
    /\ pc = "concatenating"
    /\ s = Len(processedSegments)
    /\ OnProgress(ConcatPercent(100))
    /\ finalFile' = Concatenated(processedSegments)
    /\ CallEnd(finalFile', "returned")
    /\ s' = 0
    /\ pc' = "save"
    /\ UNCHANGED << inputVars, files, i, k, trimmedSegment, processedSegments,
                    lookups, trimVars, frameCount, lastTs, addFileCalls,
                    result >>

ConcatThrow ==
    /\ pc = "concatenating"
    /\ CallEnd(NoFile, "threw")
    /\ Catch("media error")
    /\ UNCHANGED << inputVars, files, i, k, trimmedSegment, processedSegments,
                    finalFile, lookups, trimVars, concatVars, progressVars,
                    addFileCalls >>

\* a variant that announces completion before the storage write
SaveReportingDone ==
    /\ pc = "save"
    /\ OnProgress(100 * Scale)
    /\ pc' = "addFile"
    /\ UNCHANGED << inputVars, files, i, k, trimmedSegment, processedSegments,
                    finalFile, calls, lookups, trimVars, concatVars,
                    addFileCalls, result >>

\* Step 4: onProgress("Saving final video to storage", 85)
Save ==
    /\ pc = "save"
    /\ OnProgress(85 * Scale)
    /\ pc' = "addFile"
    /\ UNCHANGED << inputVars, files, i, k, trimmedSegment, processedSegments,
                    finalFile, calls, lookups, trimVars, concatVars,
                    addFileCalls, result >>

\* await fileStorage.addFile(uploadedFile)
AddFile ==
    /\ pc = "addFile"
    /\ addFileCalls' = addFileCalls + 1
    /\ files' = Append(files, [id |-> "generated", name |-> "out.mp4",
                               type |-> "video", file |-> finalFile])
    /\ pc' = "finish"
    /\ UNCHANGED << inputVars, i, k, trimmedSegment, processedSegments,
                    finalFile, calls, lookups, trimVars, concatVars,
                    progressVars, result >>

\* the storage write is rejected
AddFileThrow ==
    /\ pc = "addFile"
    /\ addFileCalls' = addFileCalls + 1
    /\ Catch("storage error")
    /\ UNCHANGED << inputVars, files, i, k, trimmedSegment, processedSegments,
                    finalFile, calls, lookups, trimVars, concatVars,
                    progressVars >>

\* a variant that reports the first row's nominal end time
FirstRowEnd == timeline.rows[1].timeInClip.end

\* `duration: timeline[timeline.length - 1].timeInClip.end`
ReportedDuration == timeline.rows[Len(timeline.rows)].timeInClip.end

\* onProgress("Video created successfully!", 100) and the success result
Finish ==
    /\ pc = "finish"
    /\ OnProgress(100 * Scale)
    /\ result' = [status |-> "success", error |-> "",
                  segmentsProcessed |-> Len(processedSegments),
                  duration |-> ReportedDuration,
                  file |-> finalFile]
    /\ pc' = "done"
    /\ UNCHANGED << inputVars, files, i, k, trimmedSegment, processedSegments,
                    finalFile, calls, lookups, trimVars, concatVars,
                    addFileCalls >>

Next ==
    \/ Initialize
    \/ Validate
    \/ RowStart
    \/ VideoRef
    \/ ExtractCall
    \/ TrimProgress
    \/ ExtractReturn
    \/ ExtractThrow
    \/ ImageOverlays
    \/ OverlayImageReturn
    \/ OverlayImageThrow
    \/ TextOverlays
    \/ OverlayTextReturn
    \/ OverlayTextThrow
    \/ Audio
    \/ OverlayAudioReturn
    \/ OverlayAudioThrow
    \/ PushSegment
    \/ AfterRows
    \/ Combine
    \/ ConcatFrame
    \/ ConcatNextSegment
    \/ ConcatReturn
    \/ ConcatThrow
    \/ Save
    \/ AddFile
    \/ AddFileThrow
    \/ Finish

Spec == Init /\ [][Next]_vars

\* every await of composeVideo eventually resolves or rejects: a step that
\* can be taken is eventually taken
FairSpec == Spec /\ WF_vars(Next)

TypeOK ==
    /\ pc \in {"init", "validate", "rowStart", "videoRef", "extract",
               "trimming", "imageOverlays", "awaitImage", "textOverlays",
               "awaitText", "audio", "awaitAudio", "push", "afterRows",
               "combine", "concatenating", "save", "addFile", "finish", "done"}
    /\ i \in 0..MaxLongTimeline
    /\ result.status \in {"pending", "success", "failure"}

\* ------------------------------------------- the media tools, by frame
\* frame.duration of a decoded frame, in ticks; 0 stands for a frame
\* whose duration the container does not give
FrameDurations == {0, 1, 2, 4}

\* overlay time ranges, in ticks
OverlayRanges == {Range(0, 4), Range(4, 8), Range(2, 2)}

\* a rendered row: the frames its extracted segment decodes to, and the
\* time ranges of its image and text overlays
NoAudioAsset ==
    [present |-> FALSE, asset |-> NoTrack, timeRange |-> Range(0, 0),
     volume |-> [given |-> FALSE, quarters |-> 0]]

Clip(durations, images, texts) ==
    [durations |-> durations, imageOverlays |-> images, textOverlays |-> texts,
     audio |-> NoTrack, audioAsset |-> NoAudioAsset]

\* rows combined with each other: 30 fps, 120 fps, and 60 fps followed
\* by a frame of unknown duration
CuratedClips ==
    { Clip(d, ov[1], ov[2]) :
        d \in { << 4, 4, 4 >>, << 1, 1 >>, << 2, 0 >> },
        ov \in { << <<>>, <<>> >>,
                 << << Range(0, 4) >>, <<>> >>,
                 << <<>>, << Range(2, 2) >> >>,
                 << << Range(4, 8) >>, << Range(0, 4) >> >>,
                 << << Range(0, 4), Range(4, 8) >>,
                    << Range(0, 8), Range(4, 4) >> >> } }

AtMostOne(S) == { <<>> } \cup { << x >> : x \in S }

\* every single row of up to MaxClipFrames frames
SingleClips ==
    { Clip(d, a, b) :
        d \in SeqsUpTo(FrameDurations, MaxClipFrames),
        a \in AtMostOne(OverlayRanges),
        b \in AtMostOne(OverlayRanges) }

\* a decoded audio buffer: `data` holds one sequence of samples per
\* channel, `ts` is where the buffer starts, in ticks
AudioBuffer(ts, sampleRate, data) ==
    [ts |-> ts, sampleRate |-> sampleRate, numberOfChannels |-> Len(data),
     data |-> data]

Track(buffers) == [present |-> TRUE, buffers |-> buffers]

\* the audio of an extracted segment, at 120 samples per second: none,
\* as long as two 30 fps frames, shorter, longer
ClipTracks ==
    { NoTrack,
      Track(<< AudioBuffer(0, 120, << << 4, 8, 12, 16, 20, 24, 28, 32 >> >>) >>),
      Track(<< AudioBuffer(0, 120, << << 4, 8, 12, 16 >> >>) >>),
      Track(<< AudioBuffer(0, 120, << << 4, 8, 12, 16, 20, 24, 28, 32 >> >>),
               AudioBuffer(8, 120, << << 36, 40, 44, 48 >> >>) >>) }

\* the audio of a stored asset: mono in three buffers of 4 ticks, stereo at
\* 60 samples per second in two buffers of 4 ticks, or no audio track
MonoAsset ==
    Track(<< AudioBuffer(0, 120, << << 4, -8, 12, -16 >> >>),
             AudioBuffer(4, 120, << << 20, -24, 28, -32 >> >>),
             AudioBuffer(8, 120, << << 36, -40, 44, -48 >> >>) >>)

StereoAsset ==
    Track(<< AudioBuffer(0, 60, << << 4, -8 >>, << 8, -4 >> >>),
             AudioBuffer(4, 60, << << 12, -16 >>, << 16, -12 >> >>) >>)

AssetTracks == { MonoAsset, StereoAsset, NoTrack }

\* audioAsset.timeRange, in ticks
AudioRanges == { Range(0, 8), Range(2, 6), Range(0, 4), Range(0, 12) }

\* audioAsset.volume: omitted, or a number of quarters from 0 to 1
Volumes ==
    { [given |-> FALSE, quarters |-> 0] }
        \cup { [given |-> TRUE, quarters |-> q] : q \in 0 .. 4 }

AudioAsset(asset, timeRange, volume) ==
    [present |-> TRUE, asset |-> asset, timeRange |-> timeRange,
     volume |-> volume]

AudioAssets ==
    { NoAudioAsset }
        \cup { AudioAsset(a, tr, v) :
                 a \in AssetTracks, tr \in AudioRanges, v \in Volumes }

SoundClip(durations, images, texts, audio, audioAsset) ==
    [durations |-> durations, imageOverlays |-> images, textOverlays |-> texts,
     audio |-> audio, audioAsset |-> audioAsset]

\* every single row of two 30 fps frames with sound
SoundClips ==
    { SoundClip(<< 4, 4 >>, a, b, tr, aa) :
        a \in AtMostOne({ Range(0, 4) }),
        b \in AtMostOne({ Range(4, 8) }),
        tr \in ClipTracks,
        aa \in AudioAssets }

\* rows with sound combined with each other: their own audio, or an asset
\* cut shorter or longer than the video
CuratedSoundClips ==
    { SoundClip(<< 4, 4 >>, <<>>, <<>>, tr, NoAudioAsset) : tr \in ClipTracks }
        \cup { SoundClip(<< 4, 4 >>, <<>>, <<>>, NoTrack,
                         AudioAsset(MonoAsset, tr,
                                    [given |-> TRUE, quarters |-> 4])) :
                 tr \in { Range(0, 4), Range(0, 12) } }

ClipLists ==
    SeqsUpTo(CuratedClips, MaxRows)
        \cup { << c >> : c \in SingleClips }
        \cup SeqsUpTo(CuratedSoundClips, MaxRows)
        \cup { << c >> : c \in SoundClips }

\* the sum of the first n durations
RECURSIVE SumDurations(_, _)
SumDurations(durations, n) ==
    IF n = 0 THEN 0 ELSE SumDurations(durations, n - 1) + durations[n]

\* vSink.samples() of an extracted segment: frames in order, each starting
\* where the previous one ended
Decoded(row, durations) ==
    [n \in 1 .. Len(durations) |->
        [ts |-> SumDurations(durations, n - 1), duration |-> durations[n],
         layers |-> <<>>, row |-> row, source |-> n]]

\* `Math.max(frame.duration || 1 / 30, 1 / 60)`
FrameDuration(d) ==
    LET known == IF d = 0 THEN DefaultFrameDuration ELSE d
    IN  IF known >= MinFrameDuration THEN known ELSE MinFrameDuration

\* the value of `t` when frame n of the input is reached: `let t = 0`, then
\* `t += duration` after every frame
RECURSIVE Cursor(_, _)
Cursor(frames, n) ==
    IF n = 1 THEN 0
    ELSE Cursor(frames, n - 1) + FrameDuration(frames[n - 1].duration)

\* a variant whose upper bound is exclusive
ImageDrawnBeforeEnd(timeRange, ts) ==
    ts >= timeRange.start /\ ts < timeRange.end

\* `if (ts >= timeRange.start && ts <= timeRange.end)` of overlayImage
ImageDrawn(timeRange, ts) == ts >= timeRange.start /\ ts <= timeRange.end

\* `if (t >= textConfig.timeRange.start && t <= textConfig.timeRange.end)`
TextDrawn(timeRange, t) == t >= timeRange.start /\ t <= timeRange.end

\* the number of samples per channel
BufferLength(b) == Len(b.data[1])

\* how long a buffer plays, in ticks of 1/120 s
BufferTicks(b) == (BufferLength(b) * 120) \div b.sampleRate

\* where the first n buffers end when they are played one after another
RECURSIVE AudioEnd(_, _)
AudioEnd(buffers, n) ==
    IF n = 0 THEN 0 ELSE AudioEnd(buffers, n - 1) + BufferTicks(buffers[n])

\* `await audioSource.add(buffer)` for each buffer in turn: a buffer is
\* written where the previous one ended, the first one at 0
AddedInOrder(buffers) ==
    [n \in 1 .. Len(buffers) |->
        [buffers[n] EXCEPT !.ts = AudioEnd(buffers, n - 1)]]

\* `if (aTrack) { audioSource = ...; output.addAudioTrack(audioSource) }`
\* and `for await (const ab of aSink.buffers()) await audioSource.add(ab.buffer)`
CopyAudio(videoBlob) ==
    IF videoBlob.audio.present
    THEN [present |-> TRUE, buffers |-> AddedInOrder(videoBlob.audio.buffers)]
    ELSE NoTrack

\* `frame.draw(ctx, ...)` followed by the overlay's own drawing: the
\* overlay lies above everything the frame already shows
DrawnOnTop(layers, id) == Append(layers, id)

\* a variant that does not copy the audio
OverlayImageWithoutAudio(videoBlob, timeRange, id, outputFileName) ==
    [name |-> outputFileName,
     frames |-> [n \in 1 .. Len(videoBlob.frames) |->
        LET frame == videoBlob.frames[n]
            t == Cursor(videoBlob.frames, n)
        IN  [ts |-> t, duration |-> FrameDuration(frame.duration),
             layers |-> IF ImageDrawn(timeRange, t)
                        THEN DrawnOnTop(frame.layers, id) ELSE frame.layers,
             row |-> frame.row, source |-> frame.source]],
     audio |-> NoTrack]

\* overlayImage: every frame is redrawn, the image on top where the cursor
\* is inside timeRange, and added at the cursor; the audio is copied
OverlayImage(videoBlob, timeRange, id, outputFileName) ==
    [name |-> outputFileName,
     frames |-> [n \in 1 .. Len(videoBlob.frames) |->
        LET frame == videoBlob.frames[n]
            t == Cursor(videoBlob.frames, n)
        IN  [ts |-> t, duration |-> FrameDuration(frame.duration),
             layers |-> IF ImageDrawn(timeRange, t)
                        THEN DrawnOnTop(frame.layers, id) ELSE frame.layers,
             row |-> frame.row, source |-> frame.source]],
     audio |-> CopyAudio(videoBlob)]

\* a variant that draws the text on an empty canvas
OverlayTextOnCleanFrame(videoBlob, timeRange, id, outputFileName) ==
    [name |-> outputFileName,
     frames |-> [n \in 1 .. Len(videoBlob.frames) |->
        LET frame == videoBlob.frames[n]
            t == Cursor(videoBlob.frames, n)
        IN  [ts |-> t, duration |-> FrameDuration(frame.duration),
             layers |-> IF TextDrawn(timeRange, t)
                        THEN << id >> ELSE frame.layers,
             row |-> frame.row, source |-> frame.source]],
     audio |-> CopyAudio(videoBlob)]

\* overlayText: the same loop with the text box
OverlayText(videoBlob, timeRange, id, outputFileName) ==
    [name |-> outputFileName,
     frames |-> [n \in 1 .. Len(videoBlob.frames) |->
        LET frame == videoBlob.frames[n]
            t == Cursor(videoBlob.frames, n)
        IN  [ts |-> t, duration |-> FrameDuration(frame.duration),
             layers |-> IF TextDrawn(timeRange, t)
                        THEN DrawnOnTop(frame.layers, id) ELSE frame.layers,
             row |-> frame.row, source |-> frame.source]],
     audio |-> CopyAudio(videoBlob)]

\* `row.audioAsset.volume ?? 1.0`, and the default of the parameter
\* `volume: number = 1.0`
VolumeOrDefault(volume) == IF volume.given THEN volume.quarters ELSE 4

\* `aSink.buffers(audioTimeRange.start, audioTimeRange.end)`: the decoded
\* buffers that hold audio of the range, each as it was decoded
BuffersInRange(track, start, end) ==
    SelectSeq(track.buffers,
              LAMBDA b : b.ts < end /\ b.ts + BufferTicks(b) > start)

\* `out = ctxAudio.createBuffer(buf.numberOfChannels, buf.length,
\* buf.sampleRate)` and `dst[i] = src[i] * volume` for every channel
Scaled(buf, quarters) ==
    [buf EXCEPT !.data =
        [ch \in 1 .. buf.numberOfChannels |->
            [x \in 1 .. BufferLength(buf) |->
                (buf.data[ch][x] * quarters) \div 4]]]

\* overlayAudio: the frames are redrawn and added at the cursor; the audio
\* track holds the asset's buffers of the range, scaled by the volume
OverlayAudio(videoBlob, asset, audioTimeRange, volume, outputFileName) ==
    [name |-> outputFileName,
     frames |-> [n \in 1 .. Len(videoBlob.frames) |->
        LET frame == videoBlob.frames[n]
        IN  [ts |-> Cursor(videoBlob.frames, n),
             duration |-> FrameDuration(frame.duration),
             layers |-> frame.layers,
             row |-> frame.row, source |-> frame.source]],
     audio |->
        [present |-> TRUE,
         buffers |->
            IF asset.present
            THEN LET yielded == BuffersInRange(asset, audioTimeRange.start,
                                               audioTimeRange.end)
                 IN  AddedInOrder([n \in 1 .. Len(yielded) |->
                                      Scaled(yielded[n], volume)])
            ELSE <<>>]]

\* a variant whose cursor starts again at 0 with every segment
RECURSIVE ConcatFromRestarting(_, _, _)
ConcatFromRestarting(segs, m, t) ==
    IF m > Len(segs) THEN <<>>
    ELSE LET frames == segs[m].frames
             added == [n \in 1 .. Len(frames) |->
                         [ts |-> Cursor(frames, n),
                          duration |-> FrameDuration(frames[n].duration),
                          layers |-> frames[n].layers,
                          row |-> frames[n].row,
                          source |-> frames[n].source]]
         IN  added \o ConcatFromRestarting(segs, m + 1, 0)

\* the frame loop of concatenateSegments from segment m on, with `t` the
\* cursor reached so far
RECURSIVE ConcatFrom(_, _, _)
ConcatFrom(segs, m, t) ==
    IF m > Len(segs) THEN <<>>
    ELSE LET frames == segs[m].frames
             added == [n \in 1 .. Len(frames) |->
                         [ts |-> t + Cursor(frames, n),
                          duration |-> FrameDuration(frames[n].duration),
                          layers |-> frames[n].layers,
                          row |-> frames[n].row,
                          source |-> frames[n].source]]
         IN  added \o ConcatFrom(segs, m + 1, t + Cursor(frames, Len(frames) + 1))

\* the decoded audio buffers of the segments from m on, in the order in
\* which the loop reaches them; a segment without audio track gives none
RECURSIVE AudioFrom(_, _)
AudioFrom(segs, m) ==
    IF m > Len(segs) THEN <<>>
    ELSE (IF segs[m].audio.present THEN segs[m].audio.buffers ELSE <<>>)
             \o AudioFrom(segs, m + 1)

\* the audio track of the output: every buffer added behind the last one
ConcatAudio(segs) ==
    [present |-> TRUE, buffers |-> AddedInOrder(AudioFrom(segs, 1))]

\* a variant without the single-segment shortcut
ConcatenateAlwaysReencode(segs, outputFileName) ==
    IF Len(segs) = 0
    THEN [status |-> "threw", error |-> "No segments to concatenate",
          file |-> NoBuffer]
    ELSE [status |-> "returned", error |-> "",
          file |-> [name |-> outputFileName,
                    frames |-> ConcatFrom(segs, 1, 0),
                    audio |-> ConcatAudio(segs)]]

\* concatenateSegments(segments, outputFileName)
ConcatenateSegments(segs, outputFileName) ==
    IF Len(segs) = 0
    THEN [status |-> "threw", error |-> "No segments to concatenate",
          file |-> NoBuffer]
    ELSE IF Len(segs) = 1
    THEN [status |-> "returned", error |-> "", file |-> segs[1]]
    ELSE [status |-> "returned", error |-> "",
          file |-> [name |-> outputFileName,
                    frames |-> ConcatFrom(segs, 1, 0),
                    audio |-> ConcatAudio(segs)]]

CurrentClip == clips[clipIndex + 1]

composeVars ==
    << timeline, files, pc, i, k, trimmedSegment, processedSegments,
       finalFile, calls, lookups, trimCount, lastTrim, s, frameCount,
       lastTs, pct, addFileCalls, result >>

\* what no step of the frame-level tools changes
composeIdleVars == << composeVars, storageVars, chunkVars >>

\* the segment extractSegment returns for the row
ExtractFrames ==
    /\ toolPc = "clip"
    /\ clipIndex < Len(clips)
    /\ rendered' = [name |-> "segment_video.mp4",
                    frames |-> Decoded(clipIndex, CurrentClip.durations),
                    audio |-> CurrentClip.audio]
    /\ overlayIndex' = 0
    /\ toolPc' = "imageOverlays"
    /\ UNCHANGED << composeIdleVars, clips, clipIndex, renderedSegments,
                    concatOutput >>

\* `trimmedSegment = await overlayImage(trimmedSegment, ...)`
ApplyImageOverlay ==
    /\ toolPc = "imageOverlays"
    /\ overlayIndex < Len(CurrentClip.imageOverlays)
    /\ rendered' = OverlayImage(rendered,
                                CurrentClip.imageOverlays[overlayIndex + 1],
                                << clipIndex, "image", overlayIndex >>,
                                "segment_image_overlay.mp4")
    /\ overlayIndex' = overlayIndex + 1
    /\ UNCHANGED << composeIdleVars, clips, toolPc, clipIndex,
                    renderedSegments, concatOutput >>

\* the image overlays are through
ImageOverlaysDone ==
    /\ toolPc = "imageOverlays"
    /\ overlayIndex = Len(CurrentClip.imageOverlays)
    /\ overlayIndex' = 0
    /\ toolPc' = "textOverlays"
    /\ UNCHANGED << composeIdleVars, clips, clipIndex, rendered,
                    renderedSegments, concatOutput >>

\* `trimmedSegment = await overlayText(trimmedSegment, tx, ...)`
ApplyTextOverlay ==
    /\ toolPc = "textOverlays"
    /\ overlayIndex < Len(CurrentClip.textOverlays)
    /\ rendered' = OverlayText(rendered,
                               CurrentClip.textOverlays[overlayIndex + 1],
                               << clipIndex, "text", overlayIndex >>,
                               "segment_text_overlay.mp4")
    /\ overlayIndex' = overlayIndex + 1
    /\ UNCHANGED << composeIdleVars, clips, toolPc, clipIndex,
                    renderedSegments, concatOutput >>

\* the text overlays are through
TextOverlaysDone ==
    /\ toolPc = "textOverlays"
    /\ overlayIndex = Len(CurrentClip.textOverlays)
    /\ overlayIndex' = 0
    /\ toolPc' = "audio"
    /\ UNCHANGED << composeIdleVars, clips, clipIndex, rendered,
                    renderedSegments, concatOutput >>

\* `trimmedSegment = await overlayAudio(trimmedSegment, audioRef,
\* row.audioAsset.timeRange, row.audioAsset.volume ?? 1.0, ...)`
ApplyAudio ==
    /\ toolPc = "audio"
    /\ CurrentClip.audioAsset.present
    /\ rendered' = OverlayAudio(rendered, CurrentClip.audioAsset.asset,
                                CurrentClip.audioAsset.timeRange,
                                VolumeOrDefault(CurrentClip.audioAsset.volume),
                                "segment_audio_overlay.mp4")
    /\ toolPc' = "push"
    /\ UNCHANGED << composeIdleVars, clips, clipIndex, overlayIndex,
                    renderedSegments, concatOutput >>

\* `processedSegments.push(trimmedSegment)`
PushFrames ==
    /\ \/ toolPc = "push"
       \/ toolPc = "audio" /\ ~CurrentClip.audioAsset.present
    /\ renderedSegments' = Append(renderedSegments, rendered)
    /\ clipIndex' = clipIndex + 1
    /\ overlayIndex' = 0
    /\ toolPc' = "clip"
    /\ UNCHANGED << composeIdleVars, clips, rendered, concatOutput >>

\* concatenateSegments(processedSegments, outputFileName)
ConcatenateCall ==
    /\ toolPc = "clip"
    /\ clipIndex = Len(clips)
    /\ concatOutput' = ConcatenateSegments(renderedSegments, "out.mp4")
    /\ toolPc' = "finished"
    /\ UNCHANGED << composeIdleVars, clips, clipIndex, overlayIndex, rendered,
                    renderedSegments >>

ToolsNext ==
    \/ ExtractFrames
    \/ ApplyImageOverlay
    \/ ImageOverlaysDone
    \/ ApplyTextOverlay
    \/ TextOverlaysDone
    \/ ApplyAudio
    \/ PushFrames
    \/ ConcatenateCall

\* the tools applied to every list of clips; composeVideo itself is not
\* running
ToolsInit ==
    /\ timeline = [present |-> FALSE, rows |-> <<>>]
    /\ files = InitialFiles
    /\ pc = "init"
    /\ i = 0
    /\ k = 0
    /\ trimmedSegment = NoFile
    /\ processedSegments = <<>>
    /\ finalFile = NoFile
    /\ calls = <<>>
    /\ lookups = <<>>
    /\ trimCount = 0
    /\ lastTrim = 0
    /\ s = 0
    /\ frameCount = 0
    /\ lastTs = -1
    /\ pct = 0
    /\ addFileCalls = 0
    /\ result = Pending
    /\ clips \in ClipLists
    /\ toolPc = "clip"
    /\ clipIndex = 0
    /\ overlayIndex = 0
    /\ rendered = NoBuffer
    /\ renderedSegments = <<>>
    /\ concatOutput = NoOutput
    /\ StorageIdle
    /\ ChunkerIdle

ToolsSpec == ToolsInit /\ [][ToolsNext]_vars

\* ------------------------------------------------------ asset resolution
\* ids and names of stored files: "x" is both an id and a name
StoredFile(id, name) ==
    [id |-> id, name |-> name, type |-> "video", file |-> MediaFile(id, TRUE)]

StoredFiles == { StoredFile(id, name) : id \in {"x", "y"},
                                        name \in {"x", "y", "z"} }

\* fileStorage.getFiles(): any files in any order
Stores == SeqsUpTo(StoredFiles, MaxStoreFiles)

\* references as a timeline row carries them
AssetRefs == { Ref(id, name) : id \in {"", "x", "y", "q"},
                               name \in {"", "x", "z"} }

\* `const videoRef = fileId || fileName; if (!videoRef) throw ...`
ChooseKey ==
    /\ storagePc = "key"
    /\ IF RefKey(assetRef) = ""
       THEN /\ resolution' = [status |-> "threw", key |-> "",
                              uploadedFile |-> NoUpload]
            /\ storagePc' = "done"
       ELSE /\ resolution' = [resolution EXCEPT !.key = RefKey(assetRef)]
            /\ storagePc' = "lookup"
    /\ UNCHANGED << composeVars, toolVars, chunkVars, assetRef >>

\* getFileFromStorage(key) finds a file
GetFileFound ==
    /\ storagePc = "lookup"
    /\ InStorage(resolution.key)
    /\ resolution' = [resolution EXCEPT
           !.status = "found",
           !.uploadedFile = GetFileFromStorage(resolution.key)]
    /\ storagePc' = "done"
    /\ UNCHANGED << composeVars, toolVars, chunkVars, assetRef >>

\* `throw new Error("File not found in storage: ...")`
GetFileNotFound ==
    /\ storagePc = "lookup"
    /\ ~InStorage(resolution.key)
    /\ resolution' = [resolution EXCEPT !.status = "threw"]
    /\ storagePc' = "done"
    /\ UNCHANGED << composeVars, toolVars, chunkVars, assetRef >>

StorageNext ==
    \/ ChooseKey
    \/ GetFileFound
    \/ GetFileNotFound

\* every reference against every store; composeVideo itself is not running
StorageInit ==
    /\ timeline = [present |-> FALSE, rows |-> <<>>]
    /\ files \in Stores
    /\ pc = "init"
    /\ i = 0
    /\ k = 0
    /\ trimmedSegment = NoFile
    /\ processedSegments = <<>>
    /\ finalFile = NoFile
    /\ calls = <<>>
    /\ lookups = <<>>
    /\ trimCount = 0
    /\ lastTrim = 0
    /\ s = 0
    /\ frameCount = 0
    /\ lastTs = -1
    /\ pct = 0
    /\ addFileCalls = 0
    /\ result = Pending
    /\ ToolsIdle
    /\ assetRef \in AssetRefs
    /\ storagePc = "key"
    /\ resolution = NoResolution
    /\ ChunkerIdle

StorageSpec == StorageInit /\ [][StorageNext]_vars

\* --------------------------------------------------- the audio chunker
\* `maxChunkSizeMB: number = 20`
MaxChunkSizeMB == 20

\* `audioBuffer.sampleRate`: the files here are decoded at 44.1 kHz
SampleRate == 44100

\* Times are kept in units of 1 / SampleRate s: the number n stands for the
\* double nearest to n / SampleRate, which is what `audioBuffer.duration`
\* (length / sampleRate) and every whole second are.  The sums and
\* differences the loop forms are exact in doubles: whole seconds are
\* added to whole seconds, `totalDuration - currentTime` is exact once it
\* is below the chunk duration (the operands are within a factor of two of
\* each other), and adding it back to currentTime gives totalDuration.
\* The product with sampleRate is not exact; SampleAt computes it.

\* a file of sizeMB megabytes whose metadata give `duration` seconds and
\* which decodes to `length` samples per channel
AudioFile(sizeMB, duration, length) ==
    [sizeMB |-> sizeMB, duration |-> duration, length |-> length]

\* files of 1, 3 and 10 minutes and a few samples more, below and above
\* the size limit, and a 64 MB recording of 69 minutes and one sample
AudioFiles ==
    { AudioFile(sz, d, d * SampleRate + x) :
        sz \in {10, 20, 24, 40}, d \in {60, 180, 600},
        x \in {0, 1, 7, 10, 4410} }
        \cup { AudioFile(64, 4140, 4140 * SampleRate + 1) }

\* the integer part of the binary logarithm
RECURSIVE Log2(_)
Log2(n) == IF n < 2 THEN 0 ELSE 1 + Log2(n \div 2)

\* 2^e modulo m
RECURSIVE PowerOfTwoMod(_, _)
PowerOfTwoMod(e, m) ==
    IF e = 0 THEN 1 % m ELSE (2 * PowerOfTwoMod(e - 1, m)) % m

\* the binary exponent of n / SampleRate, for n >= SampleRate
RECURSIVE QuotientExponent(_, _)
QuotientExponent(n, a) ==
    IF SampleRate * 2^(a + 1) <= n THEN QuotientExponent(n, a + 1) ELSE a

\* `Math.floor(x * sampleRate)` for x the double nearest to n / SampleRate
\* (n = 0 or n >= SampleRate).  With a the exponent of x, x is
\* M * 2^(a - 52) for the whole number M nearest to n * 2^(52 - a) /
\* SampleRate; `rest` is what M * SampleRate lacks to n * 2^(52 - a) when
\* M was rounded down.  The product x * sampleRate is then n - rest *
\* 2^(a - 52), which rounds to n (nearest, ties to even) unless rest
\* exceeds half the spacing of the doubles below n.
SampleAt(n) ==
    IF n % SampleRate = 0 THEN n
    ELSE LET a == QuotientExponent(n, 0)
             e == Log2(n)
             rest == ((n % SampleRate) * PowerOfTwoMod(52 - a, SampleRate))
                         % SampleRate
             half == IF n = 2^e THEN 2^(e - a - 2) ELSE 2^(e - a - 1)
         IN  IF 2 * rest < SampleRate /\ rest > half THEN n - 1 ELSE n

\* `Math.floor((maxChunkSizeMB * 0.8) / (fileSizeMB / duration))`: the
\* quotient is formed in doubles, so where it is a whole number in exact
\* arithmetic the floor may also be the number below
SafeChunkDurations(file) ==
    LET limit == (MaxChunkSizeMB * 8) \div 10
        exact == (limit * file.duration) \div file.sizeMB
    IN  IF (limit * file.duration) % file.sizeMB = 0
        THEN {exact - 1, exact} ELSE {exact}

MathMax(a, b) == IF a >= b THEN a ELSE b

MathMin(a, b) == IF a <= b THEN a ELSE b

\* `audioBuffer.duration`
TotalDuration == audioFile.length

\* lines 46-68: the chunk duration
ChooseChunkDuration ==
    /\ chunkPc = "start"
    /\ \E safeChunkDuration \in SafeChunkDurations(audioFile) :
           chunkDurationSeconds' = MathMax(60, MathMin(safeChunkDuration, 180))
    /\ chunkPc' = "sizeCheck"
    /\ UNCHANGED << composeVars, toolVars, storageVars, audioFile,
                    currentTime, chunkIndex, chunks >>

\* `if (file.size < maxFileSize) return [{blob: file, chunkIndex: 0,
\* startTime: 0, duration}]`
ReturnSingleChunk ==
    /\ chunkPc = "sizeCheck"
    /\ audioFile.sizeMB < MaxChunkSizeMB
    /\ chunks' = << [chunkIndex |-> 0, startTime |-> 0,
                     duration |-> audioFile.duration * SampleRate,
                     startSample |-> 0, endSample |-> audioFile.length] >>
    /\ chunkPc' = "returned"
    /\ UNCHANGED << composeVars, toolVars, storageVars, audioFile,
                    chunkDurationSeconds, currentTime, chunkIndex >>

\* lines 86-100: decode, `let currentTime = 0; let chunkIndex = 0`
DecodeAudio ==
    /\ chunkPc = "sizeCheck"
    /\ audioFile.sizeMB >= MaxChunkSizeMB
    /\ currentTime' = 0
    /\ chunkIndex' = 0
    /\ chunks' = <<>>
    /\ chunkPc' = "loop"
    /\ UNCHANGED << composeVars, toolVars, storageVars, audioFile,
                    chunkDurationSeconds >>

\* `Math.min(chunkDurationSeconds, totalDuration - currentTime)`
ChunkDuration ==
    MathMin(chunkDurationSeconds * SampleRate, TotalDuration - currentTime)

\* `Math.floor(currentTime * sampleRate)`
StartSample == SampleAt(currentTime)

\* `Math.floor((currentTime + chunkDuration) * sampleRate)`
EndSample == SampleAt(currentTime + ChunkDuration)

\* one pass of `while (currentTime < totalDuration)` whose buffer can be
\* created
CreateChunk ==
    /\ chunkPc = "loop"
    /\ currentTime < TotalDuration
    /\ EndSample - StartSample > 0
    /\ chunks' = Append(chunks,
                        [chunkIndex |-> chunkIndex, startTime |-> currentTime,
                         duration |-> ChunkDuration,
                         startSample |-> StartSample,
                         endSample |-> EndSample])
    /\ currentTime' = currentTime + ChunkDuration
    /\ chunkIndex' = chunkIndex + 1
    /\ UNCHANGED << composeVars, toolVars, storageVars, audioFile, chunkPc,
                    chunkDurationSeconds >>

\* `audioContext.createBuffer(numberOfChannels, chunkLength, sampleRate)`
\* with chunkLength 0 throws NotSupportedError
CreateBufferThrows ==
    /\ chunkPc = "loop"
    /\ currentTime < TotalDuration
    /\ EndSample - StartSample <= 0
    /\ chunkPc' = "threw"
    /\ UNCHANGED << composeVars, toolVars, storageVars, audioFile,
                    chunkDurationSeconds, currentTime, chunkIndex, chunks >>

\* the loop condition fails: `return chunks`
ReturnChunks ==
    /\ chunkPc = "loop"
    /\ ~(currentTime < TotalDuration)
    /\ chunkPc' = "returned"
    /\ UNCHANGED << composeVars, toolVars, storageVars, audioFile,
                    chunkDurationSeconds, currentTime, chunkIndex, chunks >>

ChunkNext ==
    \/ ChooseChunkDuration
    \/ ReturnSingleChunk
    \/ DecodeAudio
    \/ CreateChunk
    \/ CreateBufferThrows
    \/ ReturnChunks

\* splitAudioIntoChunks(file) for every file; nothing else is running
ChunkInit ==
    /\ timeline = [present |-> FALSE, rows |-> <<>>]
    /\ files = InitialFiles
    /\ pc = "init"
    /\ i = 0
    /\ k = 0
    /\ trimmedSegment = NoFile
    /\ processedSegments = <<>>
    /\ finalFile = NoFile
    /\ calls = <<>>
    /\ lookups = <<>>
    /\ trimCount = 0
    /\ lastTrim = 0
    /\ s = 0
    /\ frameCount = 0
    /\ lastTs = -1
    /\ pct = 0
    /\ addFileCalls = 0
    /\ result = Pending
    /\ ToolsIdle
    /\ StorageIdle
    /\ audioFile \in AudioFiles
    /\ chunkPc = "start"
    /\ chunkDurationSeconds = 0
    /\ currentTime = 0
    /\ chunkIndex = 0
    /\ chunks = <<>>

ChunkSpec == ChunkInit /\ [][ChunkNext]_vars

\* the loop is not left waiting
FairChunkSpec == ChunkSpec /\ WF_vars(ChunkNext)

\* ------------------------------------------------------------ properties
RowIndexes == 0 .. (N - 1)

RowAt(j) == timeline.rows[j + 1]

\* the calls of the per-row tools made for row j, in call order
IsRowCall(c) == c.op # "concatenateSegments"

ConcatCalls == { c \in DOMAIN calls : calls[c].op = "concatenateSegments" }

Unresolvable(ref) == ref.present /\ ~InStorage(RefKey(ref))

IsEmptyRef(ref) == ref.present /\ ref.fileId = "" /\ ref.fileName = ""

\* C1: within one invocation the percent values given to onProgress never
\* decrease.
C1_ProgressNeverDecreases == [][pct' >= pct]_vars

\* C2: the storage write happens exactly once when the result is a success
\* and never when an earlier step (validation, asset resolution, extract,
\* overlay, audio, concat) failed; what is written is the final file.
C2_NoPartialOutputPublished ==
    /\ addFileCalls <= 1
    /\ result.status = "success" =>
         /\ addFileCalls = 1
         /\ Len(files) = Len(InitialFiles) + 1
         /\ files[Len(files)].file = result.file
    /\ (result.status = "failure" /\ result.error # "storage error") =>
         /\ addFileCalls = 0
         /\ files = InitialFiles
    /\ pc \notin {"finish", "done"} => (addFileCalls = 0 /\ files = InitialFiles)

\* a failure after at least one row was rendered: a partial output existed
C2_Witness ==
    /\ result.status = "failure"
    /\ result.error = "media error"
    /\ Len(processedSegments) >= 1
    /\ addFileCalls = 0

\* C3: a row whose audioAsset resolves to no stored asset makes the
\* invocation fail and nothing is published (the kind of the error is left
\* open here: the statement fails already on the success flag).
C3_MissingAudioFails ==
    (pc = "done" /\ \E j \in RowIndexes : Unresolvable(RowAt(j).audioAsset))
        => (result.status = "failure" /\ addFileCalls = 0)

\* C4: a missing or zero-row timeline fails with 'Timeline is empty', and
\* no asset is resolved, no media tool is called, nothing is published.
C4_EmptyTimelineFails ==
    (~timeline.present \/ timeline.rows = <<>>) =>
        /\ pc \in {"init", "validate", "done"}
        /\ lookups = <<>>
        /\ calls = <<>>
        /\ addFileCalls = 0
        /\ files = InitialFiles
        /\ pc = "done" =>
             (result.status = "failure" /\ result.error = "Timeline is empty")

C4_Witness ==
    /\ timeline.present
    /\ timeline.rows = <<>>
    /\ pc = "done"
    /\ result.status = "failure"

\* C5: a timeline with a row whose videoAsset, audioAsset or image overlay
\* reference is present but empty is never composed successfully.
C5_EmptyReferenceRejected ==
    (\E j \in RowIndexes :
        \/ IsEmptyRef(RowAt(j).videoAsset)
        \/ IsEmptyRef(RowAt(j).audioAsset)
        \/ \E o \in DOMAIN RowAt(j).imageOverlays :
             IsEmptyRef(RowAt(j).imageOverlays[o]))
        => result.status # "success"

\* C6: when the invocation fails on validation (empty timeline, empty asset
\* reference) no media tool has been called before.
C6_ValidationFailsFast ==
    (result.status = "failure"
        /\ result.error \in {"Timeline is empty", "missing video reference"})
        => calls = <<>>

\* the rows with a videoAsset among the first n rows
VideoRowsBelow(n) == { j \in RowIndexes : j < n /\ RowAt(j).videoAsset.present }

\* the row a processed segment was rendered from
OriginRow(seg) == seg.ops[1].row

ExpectedOps(row) ==
    << <<"extractSegment", 0>> >>
    \o [o \in 1 .. Len(row.imageOverlays) |-> <<"overlayImage", o - 1>>]
    \o [o \in 1 .. Len(row.textOverlays) |-> <<"overlayText", o - 1>>]
    \o (IF row.audioAsset.present THEN << <<"overlayAudio", 0>> >> ELSE <<>>)

CallsOfRow(j) ==
    SelectSeq(calls, LAMBDA c : IsRowCall(c) /\ c.row = j)

\* each call takes the previous call's output
Chained(cs) ==
    \A c \in 2 .. Len(cs) : cs[c].inputs = << cs[c - 1].output >>

\* C8: every rendered row went through exactly one extract, one overlayImage
\* per image overlay in list order, one overlayText per text overlay in list
\* order, and overlayAudio iff it has an audioAsset, each consuming the
\* previous output; the processed segment is the last output.
C8_RowPipelineOrder ==
    \A g \in DOMAIN processedSegments :
        LET j == OriginRow(processedSegments[g])
            cs == CallsOfRow(j)
        IN  /\ [c \in 1 .. Len(cs) |-> << cs[c].op, cs[c].k >>]
                 = ExpectedOps(RowAt(j))
            /\ Chained(cs)
            /\ processedSegments[g] = cs[Len(cs)].output

\* C9: rows are processed one after the other in timeline order: at most
\* one media call is in flight (always the latest one), calls are made in
\* row order, and the processed segments are in timeline order.
C9_RowsSequential ==
    /\ \A c \in DOMAIN calls :
         calls[c].state = "running" =>
             (c = Len(calls) /\ pc \in {"trimming", "awaitImage", "awaitText",
                                        "awaitAudio", "concatenating"})
    /\ \A c, d \in DOMAIN calls : c < d => calls[c].row <= calls[d].row
    /\ \A c \in DOMAIN calls : IsRowCall(calls[c]) => calls[c].row = i \/
         (calls[c].row < i /\ calls[c].state = "returned")
    /\ \A g, h \in DOMAIN processedSegments :
         g < h => OriginRow(processedSegments[g]) < OriginRow(processedSegments[h])

\* the second row's extract is running after the first row's calls returned
C9_Witness ==
    /\ pc = "trimming"
    /\ i = 1
    /\ Len(processedSegments) = 1
    /\ Len(calls) >= 4
    /\ calls[Len(calls)].state = "running"

\* C10: after the loop, 0 segments: failure 'No valid video segments found
\* in timeline', no concatenation, no publish; 1 segment: no concatenation
\* and that segment is the final file; 2 or more: one concatenateSegments
\* call on all segments in row order, whose output is the final file.
C10_SegmentCountDecides ==
    /\ Cardinality(ConcatCalls) <= 1
    /\ \A c \in ConcatCalls :
         /\ Len(processedSegments) >= 2
         /\ calls[c].inputs = processedSegments
         /\ c = Len(calls)
    /\ (pc = "done" /\ i = N /\ N > 0 /\ processedSegments = <<>>) =>
         /\ result.status = "failure"
         /\ result.error = "No valid video segments found in timeline"
         /\ ConcatCalls = {}
         /\ addFileCalls = 0
    /\ pc \in {"combine", "concatenating", "save", "addFile", "finish"} =>
         Len(processedSegments) >= 1
    /\ (pc \in {"save", "addFile", "finish"} \/ result.status = "success") =>
         /\ Len(processedSegments) = 1 =>
              (ConcatCalls = {} /\ finalFile = processedSegments[1])
         /\ Len(processedSegments) >= 2 =>
              /\ Cardinality(ConcatCalls) = 1
              /\ calls[Len(calls)].state = "returned"
              /\ calls[Len(calls)].output = finalFile
              /\ finalFile = Concatenated(processedSegments)
    /\ Len(files) > Len(InitialFiles) => files[Len(files)].file = finalFile

\* two segments were concatenated and the result was published
C10_Witness ==
    /\ result.status = "success"
    /\ Len(processedSegments) = 2
    /\ finalFile.parts = processedSegments
    /\ files[Len(files)].file = finalFile

\* the phase of the invocation a position belongs to
PhaseRank(p) ==
    CASE p \in {"init", "validate"} -> 1                       \* Validating
      [] p \in {"rowStart", "videoRef", "extract", "trimming", "imageOverlays",
                "awaitImage", "textOverlays", "awaitText", "audio",
                "awaitAudio", "push", "afterRows"} -> 2        \* ProcessingRows
      [] p \in {"combine", "concatenating"} -> 3               \* Concatenating
      [] p \in {"save", "addFile", "finish"} -> 4              \* Publishing
      [] OTHER -> 5                                            \* Done / Failed

\* C11: an invocation goes through Validating, ProcessingRows,
\* Concatenating, Publishing, Done in that order, never back and never
\* skipping a phase except into Failed; Done and Failed are terminal (no
\* step, so no callback, media call or storage write, follows them); the
\* 100% event and the success result come only after the storage write.
C11_PhaseOrder ==
    /\ [](pc = "done" <=> result.status # "pending")
    /\ []((N > 0 /\ pct = 100 * Scale) =>
            (addFileCalls = 1 /\ Len(files) = Len(InitialFiles) + 1))
    /\ [](result.status = "success" => (N > 0 /\ pct = 100 * Scale))
    /\ [][ /\ pc # "done"
           /\ PhaseRank(pc') >= PhaseRank(pc)
           /\ PhaseRank(pc') > PhaseRank(pc) + 1 => result'.status = "failure"
           /\ result'.status = "success" => pc = "finish" ]_vars

\* a successful invocation that really concatenated
C11_Witness ==
    /\ pc = "done"
    /\ result.status = "success"
    /\ finalFile.src = "concat"
    /\ pct = 100 * Scale

\* Failed is entered from each of the four phases
FailedFromValidating == result.error = "Timeline is empty"

FailedFromProcessingRows ==
    result.error = "No valid video segments found in timeline"

FailedFromConcatenating ==
    /\ result.status = "failure"
    /\ calls # <<>>
    /\ calls[Len(calls)].op = "concatenateSegments"

FailedFromPublishing == result.error = "storage error"

\* C12: any failure aborts the invocation: nothing runs after it (no later
\* overlay, stage or row), it is caught and returned as success:false
\* without data, and the error is the message of that first failure.
C12_FailureAborts ==
    /\ [](\A c \in DOMAIN calls :
            calls[c].state = "threw" =>
                /\ c = Len(calls)
                /\ pc = "done"
                /\ result.status = "failure"
                /\ result.error \in {"media error", "File not found in storage"})
    /\ [](result.status = "failure" =>
            /\ pc = "done"
            /\ result.file = NoFile
            /\ result.segmentsProcessed = 0
            /\ result.duration = 0
            /\ CASE result.error = "Timeline is empty" ->
                      (~timeline.present \/ timeline.rows = <<>>) /\ calls = <<>>
                 [] result.error = "missing video reference" ->
                      RefKey(RowAt(i).videoAsset) = ""
                 [] result.error = "File not found in storage" ->
                      /\ ~InStorage(lookups[Len(lookups)].key)
                      /\ calls[Len(calls)].state = "threw"
                 [] result.error = "media error" ->
                      calls[Len(calls)].state = "threw"
                 [] result.error = "No valid video segments found in timeline" ->
                      processedSegments = <<>> /\ i = N
                 [] result.error = "storage error" ->
                      addFileCalls = 1 /\ files = InitialFiles
                 [] OTHER -> FALSE)
    /\ [][result.status # "failure"]_vars

\* a tool threw in a row that is not the last one: the later rows never ran
C12_Witness ==
    /\ result.status = "failure"
    /\ i + 1 < N
    /\ calls # <<>>
    /\ calls[Len(calls)].state = "threw"
    /\ calls[Len(calls)].row = i

\* C13: for a finite timeline, when every media and storage call returns or
\* throws, the invocation reaches its result.
C13_Terminates == <>(pc = "done")

\* a timeline longer than MaxRows was composed to the end
C13_Witness ==
    /\ pc = "done"
    /\ result.status = "success"
    /\ N > MaxRows

\* total length of the videoAsset.timeRange of the first n rows that have a
\* videoAsset
RECURSIVE RenderedLength(_)
RenderedLength(n) ==
    IF n = 0 THEN 0
    ELSE RenderedLength(n - 1)
         + (IF RowAt(n - 1).videoAsset.present
            THEN RowAt(n - 1).videoAsset.timeRange.end
                 - RowAt(n - 1).videoAsset.timeRange.start
            ELSE 0)

\* C18: on success the reported duration is the total length of the
\* rendered rows' videoAsset.timeRange, whatever the rows' timeInClip is
\* and whether or not rows were skipped.
C18_DurationIsRenderedLength ==
    result.status = "success" => result.duration = RenderedLength(N)

\* C19: on success duration is timeInClip.end of the last input row,
\* segmentsProcessed is the number of rows with a videoAsset (at least 1)
\* and the reported file (hence its size) is the published one.
C19_ResultMetadata ==
    result.status = "success" =>
        /\ result.duration = RowAt(N - 1).timeInClip.end
        /\ result.segmentsProcessed =
               Cardinality({ j \in RowIndexes : RowAt(j).videoAsset.present })
        /\ result.segmentsProcessed >= 1
        /\ files[Len(files)].file = result.file
        /\ Len(files) = Len(InitialFiles) + 1

\* success on a timeline whose rows end at different nominal times and
\* whose last row's nominal length differs from the rendered length
C19_Witness ==
    /\ result.status = "success"
    /\ N >= 2
    /\ RowAt(0).timeInClip.end # RowAt(N - 1).timeInClip.end
    /\ result.duration # RenderedLength(N)

\* positions at which the value last reported belongs to row i
RowPositions ==
    {"videoRef", "extract", "trimming", "imageOverlays", "awaitImage",
     "textOverlays", "awaitText", "audio", "awaitAudio", "push"}

\* the band of row j: 60/n wide, starting at 10 + j * 60/n
InBand(j, value) ==
    /\ value * N >= (10 * N + 60 * j) * Scale
    /\ value * N <= (10 * N + 60 * (j + 1)) * Scale

\* C20: every progress value is in [0,100] and in the band of its phase:
\* the values of row i of n within one band of width 60/n, the bands
\* spanning 10..70; concatenation within [70,85]; publishing 85, then 100;
\* for every n >= 1.
C20_ProgressBands ==
    /\ pct >= 0
    /\ N > 0 => pct <= 100 * Scale
    /\ pc \in RowPositions => InBand(i, pct)
    /\ pc = "combine" => pct = 70 * Scale
    /\ pc \in {"concatenating", "save"} =>
           (pct >= 70 * Scale /\ pct <= 85 * Scale)
    /\ pc \in {"addFile", "finish"} => pct = 85 * Scale
    /\ result.status = "success" => pct = 100 * Scale

\* the same bands hold as long as a band is at least 2 wide (n <= 30)
C20_BandsUpTo30Rows == N <= 30 => C20_ProgressBands

\* -------------------------------------------- properties of the tools
\* the duration of a buffer: where its last frame ends
BufferDuration(frames) ==
    IF frames = <<>> THEN 0
    ELSE frames[Len(frames)].ts + frames[Len(frames)].duration

\* the total duration of the first n buffers handed to concatenateSegments
RECURSIVE DurationOfFirst(_)
DurationOfFirst(n) ==
    IF n = 0 THEN 0
    ELSE DurationOfFirst(n - 1) + BufferDuration(renderedSegments[n].frames)

\* the number of frames in the first n buffers
RECURSIVE FramesInFirst(_)
FramesInFirst(n) ==
    IF n = 0 THEN 0
    ELSE FramesInFirst(n - 1) + Len(renderedSegments[n].frames)

ReallyConcatenated == toolPc = "finished" /\ Len(renderedSegments) >= 2

\* C14: the output of concatenateSegments on two or more segments lasts as
\* long as the inputs together, and the first frame of each segment starts
\* where the segments before it end, whatever the source frame durations.
C14_ConcatDurationIsSum ==
    ReallyConcatenated =>
        /\ BufferDuration(concatOutput.file.frames)
               = DurationOfFirst(Len(renderedSegments))
        /\ \A m \in 2 .. Len(renderedSegments) :
               renderedSegments[m].frames # <<>> =>
                   concatOutput.file.frames[FramesInFirst(m - 1) + 1].ts
                       = DurationOfFirst(m - 1)

\* every input frame lasts at least 1/60 s
NoShortFrames ==
    \A m \in DOMAIN renderedSegments :
        \A n \in DOMAIN renderedSegments[m].frames :
            renderedSegments[m].frames[n].duration >= MinFrameDuration

\* the same statement for inputs without frames shorter than 1/60 s or of
\* unknown duration
C14_SumForFramesOfAtLeastMin == NoShortFrames => C14_ConcatDurationIsSum

\* C15: concatenateSegments of one segment returns that very buffer, not
\* re-encoded and under its own name; of no segment it fails with
\* 'No segments to concatenate'.
C15_SingleSegmentIdentity ==
    toolPc = "finished" =>
        /\ Len(renderedSegments) = 1 =>
               /\ concatOutput.status = "returned"
               /\ concatOutput.file = renderedSegments[1]
        /\ Len(renderedSegments) = 0 =>
               /\ concatOutput.status = "threw"
               /\ concatOutput.error = "No segments to concatenate"

\* a single segment that a re-encode would have changed came back
C15_Witness ==
    /\ toolPc = "finished"
    /\ Len(renderedSegments) = 1
    /\ concatOutput.status = "returned"
    /\ \E n \in DOMAIN renderedSegments[1].frames :
           renderedSegments[1].frames[n].duration < MinFrameDuration

\* the empty list was refused
C15_EmptyListReached == toolPc = "finished" /\ concatOutput.status = "threw"

\* the overlays a frame shows
Shown(frame) == { frame.layers[n] : n \in DOMAIN frame.layers }

\* the overlays of the current row that have been applied to `rendered`
AppliedImages ==
    IF toolPc = "imageOverlays" THEN 0 .. (overlayIndex - 1)
    ELSE IF toolPc \in {"textOverlays", "audio", "push"}
    THEN 0 .. (Len(CurrentClip.imageOverlays) - 1)
    ELSE {}

AppliedTexts ==
    IF toolPc = "textOverlays" THEN 0 .. (overlayIndex - 1)
    ELSE IF toolPc \in {"audio", "push"}
    THEN 0 .. (Len(CurrentClip.textOverlays) - 1)
    ELSE {}

\* C16: in the output of overlayImage / overlayText a frame with timestamp
\* t carries the overlay exactly when start <= t <= end of the overlay's
\* timeRange, both ends included.
C16_OverlayWindow ==
    \A n \in DOMAIN rendered.frames :
        LET frame == rendered.frames[n]
        IN  /\ \A j \in AppliedImages :
                   (<< clipIndex, "image", j >> \in Shown(frame))
                       <=> /\ CurrentClip.imageOverlays[j + 1].start <= frame.ts
                           /\ frame.ts <= CurrentClip.imageOverlays[j + 1].end
            /\ \A j \in AppliedTexts :
                   (<< clipIndex, "text", j >> \in Shown(frame))
                       <=> /\ CurrentClip.textOverlays[j + 1].start <= frame.ts
                           /\ frame.ts <= CurrentClip.textOverlays[j + 1].end

\* an image overlay sits on the frame that starts exactly at the end of
\* its range and not on a later one
C16_Witness ==
    /\ toolPc = "imageOverlays"
    /\ overlayIndex = 1
    /\ \E a, b \in DOMAIN rendered.frames :
           /\ rendered.frames[a].ts = CurrentClip.imageOverlays[1].end
           /\ << clipIndex, "image", 0 >> \in Shown(rendered.frames[a])
           /\ rendered.frames[b].ts > CurrentClip.imageOverlays[1].end
           /\ << clipIndex, "image", 0 >> \notin Shown(rendered.frames[b])

\* frame f of the final output shows the overlays of its own row whose
\* range holds f.ts - offset, and no overlay of another row
ShowsOwnOverlays(f, offset) ==
    /\ \A j \in DOMAIN clips[f.row + 1].imageOverlays :
           (<< f.row, "image", j - 1 >> \in Shown(f))
               <=> /\ clips[f.row + 1].imageOverlays[j].start <= f.ts - offset
                   /\ f.ts - offset <= clips[f.row + 1].imageOverlays[j].end
    /\ \A j \in DOMAIN clips[f.row + 1].textOverlays :
           (<< f.row, "text", j - 1 >> \in Shown(f))
               <=> /\ clips[f.row + 1].textOverlays[j].start <= f.ts - offset
                   /\ f.ts - offset <= clips[f.row + 1].textOverlays[j].end
    /\ \A id \in Shown(f) : id[1] = f.row

\* C17: in the output of a multi-row composition a frame of row k at time
\* T shows that row's overlay exactly when T minus the total duration of
\* the rendered rows before k is inside the overlay's range, and never an
\* overlay of another row.
C17_OverlayRelativeToRow ==
    ReallyConcatenated =>
        \A n \in DOMAIN concatOutput.file.frames :
            ShowsOwnOverlays(concatOutput.file.frames[n],
                             DurationOfFirst(concatOutput.file.frames[n].row))

\* where the frames of row j begin in the final output
StartInOutput(j) ==
    IF renderedSegments[j + 1].frames = <<>> THEN 0
    ELSE concatOutput.file.frames[FramesInFirst(j) + 1].ts

\* the same statement with the time counted from where the row begins in
\* the output
C17_RelativeToStartInOutput ==
    ReallyConcatenated =>
        \A n \in DOMAIN concatOutput.file.frames :
            ShowsOwnOverlays(concatOutput.file.frames[n],
                             StartInOutput(concatOutput.file.frames[n].row))

\* the claimed form holds as long as no row hands concatenateSegments a
\* frame shorter than 1/60 s or of unknown duration
C17_RelativeToRowForFramesOfAtLeastMin ==
    NoShortFrames => C17_OverlayRelativeToRow

\* ------------------------------------- properties, continued (C21 on)
\* C21: overlayImage and overlayText on a buffer without a primary video
\* track return that very buffer, raise nothing and do not resolve the
\* image asset: the buffer passes the overlay stages unchanged.
C21_NoVideoTrackIsNoOp ==
    [][ (pc \in {"awaitImage", "awaitText"} /\ ~trimmedSegment.video) =>
            /\ trimmedSegment' = trimmedSegment
            /\ lookups' = lookups
            /\ result' = result
            /\ Len(calls') = Len(calls)
            /\ calls'[Len(calls')].state = "returned"
            /\ calls'[Len(calls')].output = trimmedSegment
            /\ pc' \in {"imageOverlays", "textOverlays"} ]_vars

\* an image overlay and a text overlay both returned an audio-only buffer
C21_Witness ==
    \E a, b \in DOMAIN calls :
        /\ calls[a].op = "overlayImage"
        /\ calls[b].op = "overlayText"
        /\ calls[a].state = "returned" /\ calls[b].state = "returned"
        /\ ~calls[a].inputs[1].video /\ ~calls[b].inputs[1].video
        /\ calls[a].output = calls[a].inputs[1]
        /\ calls[b].output = calls[b].inputs[1]

\* C28: getFileFromStorage(key) gives a stored file whose id is key if
\* there is one, else a stored file whose name is key if there is one,
\* else it throws; an id match wins over a name match in any store order.
\* The key is the reference's fileId unless that is empty, and only then
\* its fileName: a non-empty fileId that matches nothing fails even when
\* the fileName names a stored file.
C28_AssetResolution ==
    storagePc = "done" =>
        LET key == IF assetRef.fileId # "" THEN assetRef.fileId
                   ELSE assetRef.fileName
            idMatches == { j \in DOMAIN files : files[j].id = key }
            nameMatches == { j \in DOMAIN files : files[j].name = key }
        IN  /\ resolution.key = key
            /\ IF key = "" THEN resolution.status = "threw"
               ELSE IF idMatches # {}
               THEN /\ resolution.status = "found"
                    /\ resolution.uploadedFile.id = key
                    /\ \E j \in idMatches : resolution.uploadedFile = files[j]
               ELSE IF nameMatches # {}
               THEN /\ resolution.status = "found"
                    /\ resolution.uploadedFile.name = key
                    /\ \E j \in nameMatches : resolution.uploadedFile = files[j]
               ELSE /\ resolution.status = "threw"
                    /\ resolution.uploadedFile = NoUpload

\* the file found by id stands behind another file whose name is the key
C28_Witness ==
    /\ storagePc = "done"
    /\ resolution.status = "found"
    /\ Len(files) = 2
    /\ files[1].name = resolution.key /\ files[1].id # resolution.key
    /\ files[2].id = resolution.key
    /\ resolution.uploadedFile = files[2]

\* a fileId that matches nothing fails although the fileName is stored
C28_NameNotTriedAfterId ==
    /\ storagePc = "done"
    /\ resolution.status = "threw"
    /\ assetRef.fileId # ""
    /\ \E j \in DOMAIN files : files[j].name = assetRef.fileName

\* C24: concatenateSegments of two or more segments emits the frames in
\* segment order and, inside a segment, in frame order; the first frame
\* starts at 0, every later frame starts exactly where the one before it
\* ends, across segment boundaries too, and every duration is positive.
C24_FramesContiguous ==
    ReallyConcatenated =>
        LET out == concatOutput.file.frames
        IN  /\ Len(out) = FramesInFirst(Len(renderedSegments))
            /\ \A m \in DOMAIN renderedSegments :
                   \A n \in DOMAIN renderedSegments[m].frames :
                       LET o == out[FramesInFirst(m - 1) + n]
                       IN  /\ o.row = renderedSegments[m].frames[n].row
                           /\ o.source = renderedSegments[m].frames[n].source
            /\ out # <<>> => out[1].ts = 0
            /\ \A x \in DOMAIN out : out[x].duration > 0
            /\ \A x \in 1 .. (Len(out) - 1) :
                   /\ out[x + 1].ts = out[x].ts + out[x].duration
                   /\ out[x + 1].ts > out[x].ts

\* two segments of two frames each, one of them with a frame of unknown
\* duration, were joined
C24_Witness ==
    /\ ReallyConcatenated
    /\ Len(concatOutput.file.frames) >= 4
    /\ concatOutput.file.frames[Len(concatOutput.file.frames)].row = 1
    /\ concatOutput.file.frames[Len(concatOutput.file.frames)].source >= 2
    /\ \E n \in DOMAIN renderedSegments[1].frames :
           renderedSegments[1].frames[n].duration = 0

\* a step in which overlayImage, overlayText or overlayAudio re-encodes
\* `rendered`
StageStep ==
    \/ toolPc = "imageOverlays" /\ overlayIndex' = overlayIndex + 1
    \/ toolPc = "textOverlays" /\ overlayIndex' = overlayIndex + 1
    \/ toolPc = "audio" /\ toolPc' = "push"

\* one output frame per input frame, drawn from it, in the same order
OneFramePerInputFrame ==
    /\ Len(rendered'.frames) = Len(rendered.frames)
    /\ \A n \in DOMAIN rendered.frames :
           /\ rendered'.frames[n].row = rendered.frames[n].row
           /\ rendered'.frames[n].source = rendered.frames[n].source

\* every output frame keeps the timestamp and the duration of its input
\* frame
SameTimes ==
    \A n \in DOMAIN rendered.frames :
        /\ rendered'.frames[n].ts = rendered.frames[n].ts
        /\ rendered'.frames[n].duration = rendered.frames[n].duration

\* C25: overlayImage, overlayText and the video passthrough of overlayAudio
\* emit one output frame per input frame, in order, each with the
\* timestamp and duration of the input frame it was drawn from, also for
\* inputs with missing frame durations or durations below 1/60 s.
C25_FramesKeepTimes ==
    [][StageStep => (OneFramePerInputFrame /\ SameTimes)]_vars

\* the part about count and order alone
C25_OneFramePerInputFrame == [][StageStep => OneFramePerInputFrame]_vars

\* timestamps and durations are kept when every input frame lasts at
\* least 1/60 s (the decoded frames here start at 0 and follow each other
\* without a gap)
C25_TimesKeptForFramesOfAtLeastMin ==
    [][(StageStep /\ \A n \in DOMAIN rendered.frames :
                        rendered.frames[n].duration >= MinFrameDuration)
          => SameTimes]_vars

\* a step in which overlayImage or overlayText re-encodes `rendered`
OverlayStep ==
    \/ toolPc = "imageOverlays" /\ overlayIndex' = overlayIndex + 1
    \/ toolPc = "textOverlays" /\ overlayIndex' = overlayIndex + 1

\* what an audio buffer holds
Content(b) ==
    [sampleRate |-> b.sampleRate, numberOfChannels |-> b.numberOfChannels,
     data |-> b.data]

\* the contents of the buffers of a track, in order
Contents(track) == [n \in DOMAIN track.buffers |-> Content(track.buffers[n])]

C26_NoAudioReached ==
    /\ toolPc = "imageOverlays"
    /\ overlayIndex = 1
    /\ ~CurrentClip.audio.present
    /\ ~rendered.audio.present

\* the overlays of the current row in application order: the image
\* overlays in list order, then the text overlays in list order
ApplicationOrder ==
    [j \in 1 .. (Len(CurrentClip.imageOverlays) + Len(CurrentClip.textOverlays)) |->
        IF j <= Len(CurrentClip.imageOverlays)
        THEN << clipIndex, "image", j - 1 >>
        ELSE << clipIndex, "text", j - 1 - Len(CurrentClip.imageOverlays) >>]

\* the overlay has been applied and its range holds the time
ActiveAt(id, ts) ==
    IF id[2] = "image"
    THEN /\ id[3] \in AppliedImages
         /\ CurrentClip.imageOverlays[id[3] + 1].start <= ts
         /\ ts <= CurrentClip.imageOverlays[id[3] + 1].end
    ELSE /\ id[3] \in AppliedTexts
         /\ CurrentClip.textOverlays[id[3] + 1].start <= ts
         /\ ts <= CurrentClip.textOverlays[id[3] + 1].end

\* C27: the overlays of a row are composited cumulatively in application
\* order: from bottom to top a frame shows every overlay applied so far
\* whose range holds the frame's time, the image overlays in list order
\* below the text overlays in list order; none is lost to a later stage.
C27_CumulativeInOrder ==
    toolPc \in {"imageOverlays", "textOverlays", "audio", "push"} =>
        \A n \in DOMAIN rendered.frames :
            rendered.frames[n].layers
                = SelectSeq(ApplicationOrder,
                            LAMBDA id : ActiveAt(id, rendered.frames[n].ts))

\* a frame shows two image overlays below two text overlays
C27_Witness ==
    /\ toolPc = "audio"
    /\ \E n \in DOMAIN rendered.frames :
           rendered.frames[n].layers
               = << << clipIndex, "image", 0 >>, << clipIndex, "image", 1 >>,
                    << clipIndex, "text", 0 >>, << clipIndex, "text", 1 >> >>

\* the number of audio buffers in the first n segments handed to
\* concatenateSegments
RECURSIVE AudioBuffersInFirst(_)
AudioBuffersInFirst(n) ==
    IF n = 0 THEN 0
    ELSE AudioBuffersInFirst(n - 1)
             + (IF renderedSegments[n].audio.present
                THEN Len(renderedSegments[n].audio.buffers) ELSE 0)

\* segment m has both frames and audio
HasVideoAndAudio(m) ==
    /\ renderedSegments[m].frames # <<>>
    /\ renderedSegments[m].audio.present
    /\ renderedSegments[m].audio.buffers # <<>>

\* where the video and the audio of segment m begin in the output
VideoStartInOutput(m) ==
    concatOutput.file.frames[FramesInFirst(m - 1) + 1].ts

AudioStartInOutput(m) ==
    concatOutput.file.audio.buffers[AudioBuffersInFirst(m - 1) + 1].ts

\* C29: in the concatenated output the audio of every segment begins at the
\* output time of that segment's first video frame, whatever audio the
\* segments before it have.
C29_AudioStartsWithVideo ==
    ReallyConcatenated =>
        \A m \in DOMAIN renderedSegments :
            HasVideoAndAudio(m) => AudioStartInOutput(m) = VideoStartInOutput(m)

\* where the video and the audio of the first n segments end in the output
VideoEndInOutput(n) ==
    IF FramesInFirst(n) = 0 THEN 0
    ELSE concatOutput.file.frames[FramesInFirst(n)].ts
             + concatOutput.file.frames[FramesInFirst(n)].duration

AudioEndInOutput(n) ==
    AudioEnd(concatOutput.file.audio.buffers, AudioBuffersInFirst(n))

\* the audio begins with the video as long as, in every segment before it,
\* the audio is exactly as long as the written video
C29_AlignedWhenAudioAsLongAsVideo ==
    ReallyConcatenated =>
        \A m \in DOMAIN renderedSegments :
            (/\ HasVideoAndAudio(m)
             /\ \A j \in 1 .. (m - 1) : AudioEndInOutput(j) = VideoEndInOutput(j))
                => AudioStartInOutput(m) = VideoStartInOutput(m)

\* two segments with audio as long as their video were joined
C29_AlignedReached ==
    /\ ReallyConcatenated
    /\ HasVideoAndAudio(2)
    /\ AudioEndInOutput(1) = VideoEndInOutput(1)
    /\ VideoStartInOutput(2) > 0

\* the audio asset of the current row and the volume asked for, in quarters
AssetOfRow == CurrentClip.audioAsset

RequestedQuarters ==
    IF AssetOfRow.volume.given THEN AssetOfRow.volume.quarters ELSE 4

\* the buffers of the asset that hold audio of the requested range
SourceBuffers ==
    SelectSeq(AssetOfRow.asset.buffers,
              LAMBDA b : /\ b.ts < AssetOfRow.timeRange.end
                         /\ b.ts + BufferTicks(b) > AssetOfRow.timeRange.start)

\* every output buffer has the channel count, length and sample rate of
\* its source buffer, and every sample is volume times the source sample
ScaledCopyOfSource ==
    /\ rendered.audio.present
    /\ Len(rendered.audio.buffers) = Len(SourceBuffers)
    /\ \A n \in DOMAIN SourceBuffers :
           LET out == rendered.audio.buffers[n]
               src == SourceBuffers[n]
           IN  /\ out.numberOfChannels = src.numberOfChannels
               /\ out.sampleRate = src.sampleRate
               /\ Len(out.data) = Len(src.data)
               /\ \A ch \in DOMAIN src.data :
                      /\ Len(out.data[ch]) = Len(src.data[ch])
                      /\ \A x \in DOMAIN src.data[ch] :
                             out.data[ch][x] * 4
                                 = src.data[ch][x] * RequestedQuarters

\* every source sample that reached the output lies inside the range
OnlySamplesOfRange ==
    \A n \in DOMAIN SourceBuffers :
        /\ SourceBuffers[n].ts >= AssetOfRow.timeRange.start
        /\ SourceBuffers[n].ts + BufferTicks(SourceBuffers[n])
               <= AssetOfRow.timeRange.end

\* C22: after overlayAudio every output audio sample is volume times the
\* corresponding sample of the asset (volume 1.0 when omitted, all zero for
\* an explicit 0), in buffers of unchanged channel count, length and sample
\* rate; the output holds only samples of the asset inside audioTimeRange
\* and nothing of the video's own audio.
C22_ScaledAudioOfRange ==
    toolPc = "push" => (ScaledCopyOfSource /\ OnlySamplesOfRange)

\* the part about scaling, shape, default volume and the video's own audio
C22_ScaledCopyOfAssetBuffers == toolPc = "push" => ScaledCopyOfSource

\* the range is kept to the sample when it begins and ends where decoded
\* buffers begin and end
C22_RangeKeptAtBufferEdges ==
    (/\ toolPc = "push"
     /\ \A n \in DOMAIN AssetOfRow.asset.buffers :
            LET b == AssetOfRow.asset.buffers[n]
            IN  /\ ~(b.ts < AssetOfRow.timeRange.start
                        /\ AssetOfRow.timeRange.start < b.ts + BufferTicks(b))
                /\ ~(b.ts < AssetOfRow.timeRange.end
                        /\ AssetOfRow.timeRange.end < b.ts + BufferTicks(b)))
        => OnlySamplesOfRange

\* an explicit volume 0 silenced two buffers of a segment that had audio of
\* its own
C22_SilencedReached ==
    /\ toolPc = "push"
    /\ AssetOfRow.volume.given
    /\ AssetOfRow.volume.quarters = 0
    /\ CurrentClip.audio.present
    /\ Len(rendered.audio.buffers) = 2
    /\ \A n \in DOMAIN rendered.audio.buffers :
           \A ch \in DOMAIN rendered.audio.buffers[n].data :
               \A x \in DOMAIN rendered.audio.buffers[n].data[ch] :
                   rendered.audio.buffers[n].data[ch][x] = 0

\* the file was split, not returned whole
WasSplit == chunkPc = "returned" /\ audioFile.sizeMB >= MaxChunkSizeMB

\* the sum of the durations of the first n chunks
RECURSIVE DurationOfChunks(_)
DurationOfChunks(n) ==
    IF n = 0 THEN 0 ELSE DurationOfChunks(n - 1) + chunks[n].duration

\* the chunks follow each other in time from 0 to the total duration, each
\* longer than 0 and at most the chunk duration, which is within [60, 180]
TimesPartition ==
    /\ chunkDurationSeconds >= 60
    /\ chunkDurationSeconds <= 180
    /\ \A n \in DOMAIN chunks :
           /\ chunks[n].chunkIndex = n - 1
           /\ chunks[n].duration > 0
           /\ chunks[n].duration <= chunkDurationSeconds * SampleRate
    /\ chunks # <<>> => chunks[1].startTime = 0
    /\ \A n \in 1 .. (Len(chunks) - 1) :
           chunks[n + 1].startTime = chunks[n].startTime + chunks[n].duration
    /\ DurationOfChunks(Len(chunks)) = audioFile.length

\* the sample ranges follow each other from the first sample to the last
SamplesPartition ==
    /\ chunks # <<>> => chunks[1].startSample = 0
    /\ \A n \in 1 .. (Len(chunks) - 1) :
           chunks[n + 1].startSample = chunks[n].endSample
    /\ chunks # <<>> => chunks[Len(chunks)].endSample = audioFile.length

\* C30: when splitAudioIntoChunks splits a file it returns chunks that
\* partition the decoded audio: indexes 0..n-1, start times chained from
\* 0, durations positive, at most the chunk duration (within [60, 180] s)
\* and summing to the total duration, sample ranges adjacent with no
\* sample lost or duplicated; the loop ends by returning them.
C30_ChunksPartition ==
    /\ chunkPc # "threw"
    /\ WasSplit => (TimesPartition /\ SamplesPartition)

\* the part about times holds for every file that was split
C30_TimesPartition == WasSplit => TimesPartition

\* the sample ranges are adjacent and miss at most the last sample
C30_AtMostLastSampleLost ==
    WasSplit =>
        /\ chunks # <<>> => chunks[1].startSample = 0
        /\ \A n \in 1 .. (Len(chunks) - 1) :
               chunks[n + 1].startSample = chunks[n].endSample
        /\ chunks # <<>> =>
               chunks[Len(chunks)].endSample
                   \in {audioFile.length - 1, audioFile.length}

\* the call ends: it returns or createBuffer throws
C30_Ends == <>(chunkPc \in {"returned", "threw"})

\* a split lost the last sample
C30_SampleLostReached ==
    /\ WasSplit
    /\ chunks[Len(chunks)].endSample = audioFile.length - 1

\* a split kept every sample
C30_AllSamplesReached ==
    /\ WasSplit
    /\ Len(chunks) >= 2
    /\ chunks[Len(chunks)].endSample = audioFile.length
    /\ audioFile.length % SampleRate # 0

====
